---- MODULE Spec2Model ----
(***************************************************************************)
(* Model of the player financial and career-simulation engine of           *)
(* game_mechanics.py.                                                      *)
(*                                                                         *)
(* Every engine function is an action that draws its arguments (and the    *)
(* values the process-wide random stream hands it) from small sets and     *)
(* leaves its result in the state.  Floating-point quantities are kept in  *)
(* fixed point: a weight or multiplier x is the integer x * Scale, and a   *)
(* division truncates.  A development key is a Python integer that may     *)
(* have bit 31 set; it is kept as its bit 31 and its low 31 bits.          *)
(***************************************************************************)
EXTENDS Integers, Sequences, FiniteSets, TLC

VARIABLES
    call,             \* name of the engine function that returned last, "none" before the first call
    gen,              \* what the last key generator drew (profiles and weights, or type and multiplier)
    development_key,  \* the key returned by the last generator
    dev_info,         \* the result of the last decode of development_key
    args,             \* the arguments of the last call of a financial or retirement function
    ret,              \* its result
    POSITION_AVERAGES_CACHE,          \* the module global _POSITION_AVERAGES_CACHE
    POSITION_AVERAGES_CACHE_DB_PATH,  \* the module global _POSITION_AVERAGES_CACHE_DB_PATH
    db,               \* the tables of the database the scripts and the web requests work on
    locals            \* the local variables of the running script, or of each web request in flight

vars == <<call, gen, development_key, dev_info, args, ret,
          POSITION_AVERAGES_CACHE, POSITION_AVERAGES_CACHE_DB_PATH, db, locals>>

\* what a function that neither reads the cache nor opens the database leaves alone
store == <<POSITION_AVERAGES_CACHE, POSITION_AVERAGES_CACHE_DB_PATH, db, locals>>

-----------------------------------------------------------------------------
(* Fixed point and the grid of the random draws *)

\* one unit of a weight or multiplier is 1/Scale
Scale == 10000

\* distance between two neighbouring values a random.uniform draw is taken from
DrawStride == 1637

Abs(x) == IF x < 0 THEN -x ELSE x

\* Python round(n / d) for n >= 0, d > 0: to the nearest integer, a tie to the even one
RoundHalfEven(n, d) ==
    LET q == n \div d
        r == n % d
    IN  IF 2 * r < d THEN q
        ELSE IF 2 * r > d THEN q + 1
        ELSE IF q % 2 = 0 THEN q ELSE q + 1

Max(a, b) == IF a >= b THEN a ELSE b

Min(a, b) == IF a <= b THEN a ELSE b

\* the values random.uniform(lo, hi) is drawn from: both ends and every DrawStride-th value between
UniformDraws(lo, hi) == {lo + j * DrawStride : j \in 0..((hi - lo) \div DrawStride)} \cup {hi}

RECURSIVE SumSeq(_)
SumSeq(s) == IF s = <<>> THEN 0 ELSE Head(s) + SumSeq(Tail(s))

Range(s) == {s[i] : i \in DOMAIN s}

-----------------------------------------------------------------------------
(* Bit operations on non-negative integers below 2^31 *)

RECURSIVE Pow2(_)
Pow2(n) == IF n = 0 THEN 1 ELSE 2 * Pow2(n - 1)

RECURSIVE BitOr(_, _)
BitOr(a, b) ==
    IF a = 0 THEN b
    ELSE IF b = 0 THEN a
    ELSE (IF a % 2 = 1 \/ b % 2 = 1 THEN 1 ELSE 0) + 2 * BitOr(a \div 2, b \div 2)

ShiftLeft(x, n) == x * Pow2(n)

\* (x >> n) & (2^width - 1)
Field(x, n, width) == (x \div Pow2(n)) % Pow2(width)

\* a key with bit 31 = b31 and low 31 bits = low
Key(b31, low) == [b31 |-> b31, low |-> low]

\* key | x, for x below 2^31
KeyOr(k, x) == Key(k.b31, BitOr(k.low, x))

None == [none |-> TRUE]

-----------------------------------------------------------------------------
(* Development profiles *)

\* the keys of DEVELOPMENT_PROFILES
DEVELOPMENT_PROFILES == 0..9

\* the attempts limit of the selection loop
MaxAttempts == 20

\* min_weight of a profile of a mixed key, 0.1
MinWeight == Scale \div 10

\* int(x * 100) of a fixed-point x
IntPercent(x) == (x * 100) \div Scale

generate_development_key_hundred(profile_type, base_multiplier) ==
    Key(0, profile_type * 100 + IntPercent(base_multiplier))

generate_development_key(profile_type, base_multiplier) ==
    Key(0, profile_type * 1000 + IntPercent(base_multiplier))

decode_development_key(k) ==
    [profile_type |-> k.low \div 1000,
     base_multiplier |-> ((k.low % 1000) * Scale) \div 100]

\* the weights loop: the draws for profiles i..n-1 when remaining_weight is left
RECURSIVE ProfileWeights(_, _, _)
ProfileWeights(n, i, remaining_weight) ==
    IF i = n - 1
    THEN {<<Max(MinWeight, remaining_weight)>>}
    ELSE UNION {{<<weight>> \o rest : rest \in ProfileWeights(n, i + 1, remaining_weight - weight)} :
                weight \in UniformDraws(MinWeight, remaining_weight - MinWeight * (n - i - 1))}

\* profile_weights = [w / total_weight for w in profile_weights]
NormalizeWeights(ws) == [i \in DOMAIN ws |-> (ws[i] * Scale) \div SumSeq(ws)]

RECURSIVE EncodeProfiles(_, _, _)
EncodeProfiles(encoded, ps, i) ==
    IF i > Len(ps) THEN encoded
    ELSE EncodeProfiles(KeyOr(encoded, ShiftLeft(ps[i], 16 + (i - 1) * 4)), ps, i + 1)

RECURSIVE EncodeWeights(_, _, _)
EncodeWeights(encoded, ws, i) ==
    IF i > Len(ws) THEN encoded
    ELSE EncodeWeights(KeyOr(encoded, ShiftLeft(IntPercent(ws[i]), (i - 1) * 8)), ws, i + 1)

\* the encoding of a mixed profile: high bit, num_profiles, profiles, weights
EncodeMixed(n, ps, ws) ==
    EncodeWeights(EncodeProfiles(KeyOr(Key(1, 0), ShiftLeft(n, 24)), ps, 1), ws, 1)

\* one iteration of the selection loop on every list of profiles in pss
SelectStep(pss, n) ==
    {IF Len(ps) < n /\ profile \notin Range(ps) THEN Append(ps, profile) ELSE ps :
        ps \in pss, profile \in DEVELOPMENT_PROFILES}

\* while len(profiles) < num_profiles and attempts < 20: every list the loop can end with
RECURSIVE SelectLoop(_, _, _)
SelectLoop(pss, n, attempts) ==
    IF attempts < MaxAttempts THEN SelectLoop(SelectStep(pss, n), n, attempts + 1) ELSE pss

\* while len(profiles) < num_profiles: profiles.append(0)
RECURSIVE PadProfiles(_, _)
PadProfiles(ps, n) == IF Len(ps) < n THEN PadProfiles(Append(ps, 0), n) ELSE ps

-----------------------------------------------------------------------------
(* decode_mixed_development_key *)

\* (development_key >> 24) & 0xFF: bit 31 is bit 7 of this byte
DecodedNumProfiles(k) == Field(k.low, 24, 7) + 128 * k.b31

\* the profiles loop: only the valid profile types are appended
RECURSIVE DecodedProfiles(_, _, _)
DecodedProfiles(k, i, n) ==
    IF i >= n THEN <<>>
    ELSE LET profile_type == Field(k.low, 16 + i * 4, 4)
         IN  (IF profile_type \in DEVELOPMENT_PROFILES THEN <<profile_type>> ELSE <<>>)
             \o DecodedProfiles(k, i + 1, n)

\* the weights loop: weight = byte / 100.0
DecodedWeights(k, n) == [i \in 1..n |-> (Field(k.low, (i - 1) * 8, 8) * Scale) \div 100]

RECURSIVE PadWeights(_, _)
PadWeights(ws, n) == IF Len(ws) < n THEN PadWeights(Append(ws, 0), n) ELSE ws

NormalizeDecoded_skip(ws) == ws

\* if weights: ... if total_weight > 0: weights = [w / total_weight for w in weights]
NormalizeDecoded(ws) ==
    IF ws # <<>> /\ SumSeq(ws) > 0
    THEN [i \in DOMAIN ws |-> (ws[i] * Scale) \div SumSeq(ws)]
    ELSE ws

decode_mixed_development_key(k) ==
    IF k.b31 = 1
    THEN LET n  == Min(DecodedNumProfiles(k), 3)
             ps == DecodedProfiles(k, 0, n)
             ws == DecodedWeights(k, n)
         IN  [is_mixed |-> TRUE,
              profiles |-> PadProfiles(ps, Len(ws)),
              weights  |-> NormalizeDecoded(PadWeights(ws, Len(ps)))]
    ELSE decode_development_key(k)

-----------------------------------------------------------------------------
(* Player records and position averages *)

\* an absent value: None in a dictionary, NULL in the database, NaN in a pandas Series
NaN == -999999

\* an absent registered_position
NoPosition == "NULL"

GLOBAL_BASE_SALARY == 300000

\* club_id of the "No Club" team of the free agents
NO_CLUB == 141

\* three of the 51 skill columns, as named in the database (skill_columns of
\* calculate_player_financials) and as named by DEF_NAME and GK_NAME
SkillsLower == <<"attack", "defense", "goal_keeping">>

SkillsUpper == <<"ATTACK", "DEFENSE", "GOAL KEEPING">>

\* the skill values a player record is drawn with
SkillValues == {1, 85, 99}

\* the means a row of the position averages is drawn with
AvgValues == {NaN, 90}

\* the registered positions a player record is drawn with; "7" has a row in the position averages
Positions == {"7", "3", NoPosition}

\* every dictionary that gives some of the names a value or NaN
PlayerRows(names, values) == UNION {[D -> values \cup {NaN}] : D \in SUBSET Range(names)}

\* the position averages: None, or a DataFrame with a row for position "7"
PositionAverages == {None} \cup {("7" :> row) : row \in [Range(SkillsLower) -> AvgValues]}

\* dict.get(key, default)
DictGet(d, key, default) == IF key \in DOMAIN d THEN d[key] ELSE default

\* the two ends of the interval a random.uniform or random.randint draw is taken from
EndDraws(lo, hi) == {lo, hi}

-----------------------------------------------------------------------------
(* calculate_player_salary_base *)

NORM == 75

R_START == 70

R_END == 99

MIN_MULT == Scale \div 2

MAX_MULT == 4 * Scale

DEF_NAME == "DEFENSE"

GK_NAME == "GOAL KEEPING"

\* MIN_MULT * math.pow(MAX_MULT / MIN_MULT, (val - 70) / 29) * Scale for val = 71..98, truncated
ExpInterpolation ==
    <<5371, 5771, 6200, 6660, 7156, 7688, 8259, 8873, 9533, 10241, 11003, 11821, 12699, 13644,
      14658, 15748, 16918, 18176, 19527, 20979, 22538, 24214, 26014, 27948, 30025, 32257, 34655, 37232>>

SkillMultiplier_square(val) ==
    IF val >= R_END THEN MAX_MULT
    ELSE IF val > R_START
         THEN (MAX_MULT * (val - R_START) * (val - R_START)) \div ((R_END - R_START) * (R_END - R_START))
         ELSE MIN_MULT

\* the multiplier mult of one skill value
SkillMultiplier(val) ==
    IF val >= R_END THEN MAX_MULT
    ELSE IF val > R_START THEN ExpInterpolation[val - R_START]
    ELSE MIN_MULT

\* pos_spec_avg: the row of the position, or NORM for every skill
PosSpecAvg(player_row, pos_avg_df, skills) ==
    LET pos       == player_row["registered_position"]
        pos_clean == IF pos # NoPosition THEN pos ELSE "Unknown Position"
    IN  IF pos_avg_df = None \/ pos_clean \notin DOMAIN pos_avg_df
        THEN [s \in Range(skills) |-> NORM]
        ELSE pos_avg_df[pos_clean]

\* contrib of one present skill, times Scale; NaN when the mean of the skill is NaN
Contribution(player_row, pos_spec_avg, skill_n, binaries) ==
    LET val           == player_row[skill_n]
        eff_val       == val * SkillMultiplier(val)
        skill_imp_val == DictGet(pos_spec_avg, skill_n, NORM)
        contrib       == (eff_val * skill_imp_val) \div NORM
        boosted       == IF skill_n = DEF_NAME \/ skill_n = GK_NAME THEN contrib * 4 ELSE contrib
    IN  IF skill_imp_val = NaN THEN NaN
        ELSE IF skill_n \in binaries THEN (boosted * 15) \div 100
        ELSE boosted

\* twss after the loop over skills[i..], times Scale; NaN once a NaN has been added
RECURSIVE TotalScore(_, _, _, _, _, _)
TotalScore(player_row, pos_spec_avg, skills, binaries, i, twss) ==
    IF i > Len(skills) THEN twss
    ELSE IF skills[i] \notin DOMAIN player_row \/ player_row[skills[i]] = NaN
         THEN TotalScore(player_row, pos_spec_avg, skills, binaries, i + 1, twss)
         ELSE LET contrib == Contribution(player_row, pos_spec_avg, skills[i], binaries)
              IN  TotalScore(player_row, pos_spec_avg, skills, binaries, i + 1,
                             IF twss = NaN \/ contrib = NaN THEN NaN ELSE twss + contrib)

SalaryFromScore_unrounded(twss) ==
    LET n == Max(0, twss) \div Scale
    IN  Max(GLOBAL_BASE_SALARY, GLOBAL_BASE_SALARY + ((((n * n) \div 100) * n) \div 1000) * 117)

\* max(0, twss) is 0 for a NaN; n = norm_twss * 1000; pow_score * SCALER = n^3 * 0.00117
SalaryFromScore(twss) ==
    LET n          == (IF twss = NaN THEN 0 ELSE Max(0, twss)) \div Scale
        sal_skills == ((((n * n) \div 100) * n) \div 1000) * 117
        calc_sal   == GLOBAL_BASE_SALARY + sal_skills
    IN  Max(GLOBAL_BASE_SALARY, RoundHalfEven(calc_sal, 1000) * 1000)

calculate_player_salary_base(player_row, pos_avg_df, skills, binaries) ==
    SalaryFromScore(TotalScore(player_row, PosSpecAvg(player_row, pos_avg_df, skills), skills, binaries, 1, 0))

-----------------------------------------------------------------------------
(* Salary adjustment, market value, contract years, wage raise *)

\* round(max(GLOBAL_BASE_SALARY, base_salary * (1 + factor)) / 1000) * 1000
apply_random_salary_adjustment(base_salary, factor) ==
    LET adj_sal == (base_salary \div 1000) * ((Scale + factor) \div 10)
    IN  RoundHalfEven(Max(GLOBAL_BASE_SALARY, adj_sal), 1000) * 1000

\* the largest r in lo..hi with r * r <= n
RECURSIVE IsqrtBetween(_, _, _)
IsqrtBetween(n, lo, hi) ==
    IF lo >= hi THEN lo
    ELSE LET mid == (lo + hi + 1) \div 2
         IN  IF mid * mid <= n THEN IsqrtBetween(n, mid, hi) ELSE IsqrtBetween(n, lo, mid - 1)

\* math.pow(x, 1.5) for 0 <= x <= 1
PowK_y(x) == (x * IsqrtBetween(x * Scale, 0, Scale)) \div Scale

\* math.pow(x, 3.0) for 0 <= x <= 1
PowK_o(x) == (((x * x) \div Scale) * x) \div Scale

get_age_market_value_multiplier_unclamped(age_val) ==
    IF age_val = NaN THEN Scale
    ELSE IF age_val <= 16 THEN 4 * Scale
    ELSE IF age_val < 29
         THEN Scale + (3 * Scale * PowK_y(((29 - age_val) * Scale) \div 13)) \div Scale
    ELSE IF age_val = 29 THEN Scale
    ELSE Scale \div 100 + ((Scale - Scale \div 100) * PowK_o(((40 - age_val) * Scale) \div 11)) \div Scale

get_age_market_value_multiplier(age_val) ==
    LET y_ref == 16
        y_fact == 4 * Scale
        p_ref == 29
        p_fact == Scale
        o_ref == 40
        o_fact == Scale \div 100
    IN  IF age_val = NaN THEN Scale
        ELSE IF age_val <= y_ref THEN y_fact
        ELSE IF age_val < p_ref
             THEN p_fact + ((y_fact - p_fact) * PowK_y(((p_ref - age_val) * Scale) \div (p_ref - y_ref))) \div Scale
        ELSE IF age_val = p_ref THEN p_fact
        ELSE IF age_val < o_ref
             THEN o_fact + ((p_fact - o_fact) * PowK_o(((o_ref - age_val) * Scale) \div (o_ref - p_ref))) \div Scale
        ELSE o_fact

\* the interval determine_contract_years draws from
ContractYearsRange(age_val) ==
    IF age_val = NaN THEN <<2, 3>>
    ELSE IF age_val > 32 THEN <<1, 2>>
    ELSE IF age_val > 30 THEN <<1, 3>>
    ELSE <<2, 5>>

\* the interval calculate_yearly_wage_raise draws rp from
WageRaiseRange(player_row, skills, binaries) ==
    LET age        == IF player_row["age"] # NaN THEN player_row["age"] ELSE 25
        num_skills == {s \in Range(skills) : s \notin binaries /\ s \in DOMAIN player_row /\ player_row[s] # NaN}
        total      == SumSeq([i \in 1..Len(skills) |-> IF skills[i] \in num_skills THEN player_row[skills[i]] ELSE 0])
        count      == Cardinality(num_skills)
        \* avg_skill >= t, with avg_skill = 60.0 when there is no skill
        AvgAtLeast(t) == IF count = 0 THEN 60 >= t ELSE total >= t * count
    IN  IF age <= 23 /\ AvgAtLeast(78) THEN <<(15 * Scale) \div 100, (25 * Scale) \div 100>>
        ELSE IF age <= 23 /\ AvgAtLeast(70) THEN <<(10 * Scale) \div 100, (20 * Scale) \div 100>>
        ELSE IF age <= 26 /\ AvgAtLeast(75) THEN <<(8 * Scale) \div 100, (18 * Scale) \div 100>>
        ELSE IF age <= 29 /\ AvgAtLeast(72) THEN <<(5 * Scale) \div 100, (12 * Scale) \div 100>>
        ELSE IF age > 32 \/ ~AvgAtLeast(65) THEN <<0, (5 * Scale) \div 100>>
        ELSE <<(3 * Scale) \div 100, (8 * Scale) \div 100>>

calculate_yearly_wage_raise_uncapped(rp, salary) ==
    LET boosted == IF salary < GLOBAL_BASE_SALARY * 5 THEN (rp * 11) \div 10 ELSE rp
    IN  RoundHalfEven(boosted, Scale \div 1000) * (Scale \div 1000)

\* calculate_yearly_wage_raise once rp is drawn: the boost, the cap, round(., 3)
calculate_yearly_wage_raise(rp, salary) ==
    LET boosted == IF salary < GLOBAL_BASE_SALARY * 5 THEN (rp * 11) \div 10 ELSE rp
    IN  RoundHalfEven(Min(boosted, (25 * Scale) \div 100), Scale \div 1000) * (Scale \div 1000)

\* max(0, round(market_value * (1 + factor) / 1000) * 1000)
apply_market_value_adjustment(market_value, factor) ==
    LET adj_mv == (market_value \div 1000) * ((Scale + factor) \div 10)
    IN  Max(0, RoundHalfEven(adj_mv, 1000) * 1000)

\* identify_binary_skills on the one-row frame of the player: the columns whose value is 0 or 1
identify_binary_skills(player_data, skill_cols_list) ==
    {s \in Range(skill_cols_list) : s \in DOMAIN player_data /\ player_data[s] \in {0, 1}}

IsFreeAgent_sentinel_only(club_id) == club_id = NO_CLUB

\* player_data.get('club_id') == 141 or player_data.get('club_id') is None
IsFreeAgent(club_id) == club_id = NO_CLUB \/ club_id = NaN

\* base_salary * 1.5 * age_multiplier
BaseMarketValue(salary, age_multiplier) == (((salary * 3) \div 2) \div 1000) * (age_multiplier \div 10)

calculate_player_financials(player_data, pos_avg_df, mv_factor, sal_factor, contract_years, rp) ==
    LET skill_columns == SkillsLower
        binary_skills == identify_binary_skills(player_data, skill_columns)
        base_salary   == calculate_player_salary_base(player_data, pos_avg_df, skill_columns, binary_skills)
        age_multiplier == get_age_market_value_multiplier(DictGet(player_data, "age", 25))
        market_value  == apply_market_value_adjustment(BaseMarketValue(base_salary, age_multiplier), mv_factor)
        final_salary  == apply_random_salary_adjustment(base_salary, sal_factor)
    IN  [salary |-> final_salary,
         market_value |-> IF IsFreeAgent(DictGet(player_data, "club_id", NaN)) THEN 0 ELSE market_value,
         contract_years_remaining |-> contract_years,
         yearly_wage_rise |-> calculate_yearly_wage_raise(rp, final_salary)]

calculate_player_market_value_only(player_data) ==
    LET current_salary == DictGet(player_data, "salary", GLOBAL_BASE_SALARY)
        age_multiplier == get_age_market_value_multiplier(DictGet(player_data, "AGE", 25))
        market_value   == BaseMarketValue(current_salary, age_multiplier)
    IN  IF IsFreeAgent(DictGet(player_data, "club_id", NaN)) THEN 0 ELSE market_value

-----------------------------------------------------------------------------
(* check_player_retirement *)

RetirementAge_early == 30 - 5

\* the age from which check_player_retirement considers a retirement
RetirementAge == 30

\* salary_factor: 1.0 - min(1.0, salary / (GLOBAL_BASE_SALARY * 15))
SalaryFactor(salary) ==
    LET salary_normalized == Min(Scale, ((salary \div 1000) * Scale) \div ((GLOBAL_BASE_SALARY * 15) \div 1000))
    IN  Scale - salary_normalized

FinalProbability_unclamped(age_probability, club_factor, salary_factor) ==
    age_probability + club_factor - (salary_factor * 3) \div 10

\* final_probability: base_probability + club_factor - salary_factor * 0.3, clamped between 0 and 1
FinalProbability(age_probability, club_factor, salary_factor) ==
    LET salary_adjustment == (salary_factor * 3) \div 10
    IN  Max(0, Min(Scale, age_probability + club_factor - salary_adjustment))

check_player_retirement(player_data, random_value) ==
    LET age     == DictGet(player_data, "age", 25)
        salary  == DictGet(player_data, "salary", GLOBAL_BASE_SALARY)
        club_id == DictGet(player_data, "club_id", NaN)
        age_probability   == Min((8 * Scale) \div 10, ((age - 30) * ((75 * Scale) \div 100)) \div 13)
        salary_factor     == SalaryFactor(salary)
        club_factor       == IF IsFreeAgent(club_id) THEN (25 * Scale) \div 100 ELSE 0
        final_probability == FinalProbability(age_probability, club_factor, salary_factor)
        wants_to_retire   == random_value < final_probability
        reason ==
            IF wants_to_retire
            THEN IF IsFreeAgent(club_id) THEN "Retired due to age and being without a club"
                 ELSE IF salary < GLOBAL_BASE_SALARY * 2 THEN "Retired due to age and low salary"
                 ELSE "Retired due to age despite good salary"
            ELSE IF salary > GLOBAL_BASE_SALARY * 10 THEN "Continues due to high salary despite age"
                 ELSE IF ~IsFreeAgent(club_id) THEN "Continues due to being under contract at age"
                 ELSE "Continues despite age and current circumstances"
    IN  IF age < RetirementAge
        THEN [wants_to_retire |-> FALSE,
              retirement_probability |-> 0,
              reason |-> "Too young to consider retirement"]
        ELSE [wants_to_retire |-> wants_to_retire,
              retirement_probability |-> final_probability,
              reason |-> reason,
              age_factor |-> age_probability,
              salary_factor |-> salary_factor,
              club_factor |-> club_factor]

-----------------------------------------------------------------------------
(* Initial state and the key generators *)

\* no engine function has been called yet
Fresh == call = "none"

Init ==
    /\ call = "none"
    /\ gen = None
    /\ development_key = Key(0, 0)
    /\ dev_info = None
    /\ args = None
    /\ ret = None
    /\ POSITION_AVERAGES_CACHE = None
    /\ POSITION_AVERAGES_CACHE_DB_PATH = None
    /\ db = None
    /\ locals = None

NoCall == /\ args' = None /\ ret' = None

\* generate_mixed_development_key, random.random() < 0.95: the mixed branch
GenerateMixed ==
    /\ Fresh
    /\ \E num_profiles \in 2..3 :
          \E selected \in SelectLoop({<<>>}, num_profiles, 0) :
             LET profiles == PadProfiles(selected, num_profiles)
             IN  \E drawn \in ProfileWeights(Len(profiles), 0, Scale) :
                    LET profile_weights == NormalizeWeights(drawn)
                    IN  /\ gen' = [is_mixed |-> TRUE, profiles |-> profiles, weights |-> profile_weights]
                        /\ development_key' = EncodeMixed(num_profiles, profiles, profile_weights)
    /\ call' = "generate_mixed_development_key"
    /\ dev_info' = None
    /\ NoCall
    /\ UNCHANGED store

\* generate_mixed_development_key, the single-profile branch
GenerateMixedSingle ==
    /\ Fresh
    /\ \E profile_type \in DEVELOPMENT_PROFILES, base_multiplier \in UniformDraws((7 * Scale) \div 10, (15 * Scale) \div 10) :
          /\ gen' = [is_mixed |-> FALSE, profile_type |-> profile_type, base_multiplier |-> base_multiplier]
          /\ development_key' = generate_development_key(profile_type, base_multiplier)
    /\ call' = "generate_development_key"
    /\ dev_info' = None
    /\ NoCall
    /\ UNCHANGED store

positional_fields == <<"gk", "cwp", "cbt", "sb", "dmf", "wb", "cmf", "smf", "amf", "wf", "ss", "cf">>

position_to_field ==
    [p \in {"0", "2", "3", "4", "5", "6", "7", "8", "9", "10", "11", "12", "13"} |->
        CASE p = "0" -> "gk" [] p = "2" -> "cwp" [] p = "3" -> "cbt" [] p = "4" -> "sb"
          [] p = "5" -> "dmf" [] p = "6" -> "wb" [] p = "7" -> "cmf" [] p = "8" -> "smf"
          [] p = "9" -> "amf" [] p = "10" -> "wf" [] p = "11" -> "ss" [] OTHER -> "cf"]

\* positional_attributes: 1 for main_position_field, 0 for the other fields
positional_attributes(registered_position) ==
    LET main_position_field == DictGet(position_to_field, registered_position, "cf")
    IN  [pos \in Range(positional_fields) |-> IF pos = main_position_field THEN 1 ELSE 0]

\* the registered positions of a retiring player: codes of the stored
\* population, and a position as generate_new_player assigns it
RetiredPositions == {"0", "7", "12", "13", "GK"}

\* generate_proper_regen: the position, the development key and the
\* positional ratings of the replacement player
GenerateProperRegen ==
    /\ Fresh
    /\ \/ \E p0, p1, p2 \in 0..9 :
             /\ p0 # p1 /\ p0 # p2 /\ p1 # p2
             /\ gen' = [is_mixed |-> TRUE, profiles |-> <<p0, p1, p2>>]
             /\ development_key' = Key(0, BitOr(BitOr(ShiftLeft(p0, 20), ShiftLeft(p1, 10)), p2))
       \/ \E p \in 0..9 :
             /\ gen' = [is_mixed |-> FALSE, profile_type |-> p]
             /\ development_key' = Key(0, p)
    /\ \E registered_position \in RetiredPositions :
          /\ args' = [retired_player_data |-> [registered_position |-> registered_position]]
          /\ ret' = [registered_position |-> registered_position,
                     positional_attributes |-> positional_attributes(registered_position)]
    /\ call' = "generate_proper_regen"
    /\ dev_info' = None
    /\ UNCHANGED store

\* decode_mixed_development_key applied to the key of the last generator
DecodeMixed ==
    /\ call \in {"generate_mixed_development_key", "generate_development_key", "generate_proper_regen"}
    /\ dev_info = None
    /\ dev_info' = decode_mixed_development_key(development_key)
    /\ UNCHANGED <<call, gen, development_key, args, ret>>
    /\ UNCHANGED store

-----------------------------------------------------------------------------
(* The financial and retirement functions *)

MinSkillValue == 60

MaxSkillValue == 101

MinAge == 14

MaxAge == 46

\* the salaries a player record is drawn with
Salaries == {GLOBAL_BASE_SALARY, 500000, GLOBAL_BASE_SALARY * 10, GLOBAL_BASE_SALARY * 15, 6000000}

EmptyDict == [k \in {} |-> 0]

\* the club_id of a player record: the free-agent club, NULL, a team, or no such key
ClubFields == {("club_id" :> c) : c \in {NO_CLUB, NaN, 5}} \cup {EmptyDict}

NoKey == /\ gen' = None /\ development_key' = Key(0, 0) /\ dev_info' = None

\* calculate_player_salary_base(player_row, pos_avg_df, skills, binaries)
CalculatePlayerSalaryBase ==
    /\ Fresh
    /\ \E skills \in {SkillsLower, SkillsUpper}, pos \in Positions, pos_avg_df \in PositionAverages :
          \E row \in PlayerRows(skills, SkillValues), binaries \in {b \in SUBSET Range(skills) : Cardinality(b) <= 1} :
             LET player_row == ("registered_position" :> pos) @@ row
             IN  /\ args' = [player_row |-> player_row, pos_avg_df |-> pos_avg_df,
                             skills |-> skills, binaries |-> binaries]
                 /\ ret' = [salary |-> calculate_player_salary_base(player_row, pos_avg_df, skills, binaries)]
    /\ call' = "calculate_player_salary_base"
    /\ NoKey
    /\ UNCHANGED store

\* the multiplier step of calculate_player_salary_base on two skill values
ComputeSkillMultipliers ==
    /\ Fresh
    /\ \E v1, v2 \in MinSkillValue..MaxSkillValue :
          /\ args' = [v1 |-> v1, v2 |-> v2]
          /\ ret' = [m1 |-> SkillMultiplier(v1), m2 |-> SkillMultiplier(v2)]
    /\ call' = "skill_multiplier"
    /\ NoKey
    /\ UNCHANGED store

\* get_age_market_value_multiplier(age_val)
GetAgeMarketValueMultiplier ==
    /\ Fresh
    /\ \E age_val \in (MinAge..MaxAge) \cup {NaN} :
          /\ args' = [age_val |-> age_val]
          /\ ret' = [multiplier |-> get_age_market_value_multiplier(age_val)]
    /\ call' = "get_age_market_value_multiplier"
    /\ NoKey
    /\ UNCHANGED store

\* calculate_player_financials(player_data, db_path)
CalculatePlayerFinancials ==
    /\ Fresh
    /\ \E row \in [Range(SkillsLower) -> {NaN, 1, 99}], age \in {NaN, 16, 25, 31, 33, 45}, club \in ClubFields,
          pos_avg_df \in {None, ("7" :> [s \in Range(SkillsLower) |-> 90])} :
          LET player_data   == ("registered_position" :> "7") @@ ("age" :> age) @@ club @@ row
              binary_skills == identify_binary_skills(player_data, SkillsLower)
              years         == ContractYearsRange(age)
              raise         == WageRaiseRange(player_data, SkillsLower, binary_skills)
          IN  \E mv_factor \in EndDraws(-((15 * Scale) \div 100), (25 * Scale) \div 100),
                 sal_factor \in EndDraws(-((20 * Scale) \div 100), (20 * Scale) \div 100),
                 contract_years \in EndDraws(years[1], years[2]),
                 rp \in EndDraws(raise[1], raise[2]) :
                 /\ args' = [player_data |-> player_data, pos_avg_df |-> pos_avg_df]
                 /\ ret' = calculate_player_financials(player_data, pos_avg_df, mv_factor, sal_factor,
                                                       contract_years, rp)
    /\ call' = "calculate_player_financials"
    /\ NoKey
    /\ UNCHANGED store

\* calculate_player_market_value_only(player_data), on a row of the players table
CalculatePlayerMarketValueOnly ==
    /\ Fresh
    /\ \E age \in (MinAge..MaxAge) \cup {NaN}, salary \in Salaries, club \in ClubFields :
          LET player_data == ("age" :> age) @@ ("salary" :> salary) @@ club
          IN  /\ args' = [player_data |-> player_data]
              /\ ret' = [market_value |-> calculate_player_market_value_only(player_data)]
    /\ call' = "calculate_player_market_value_only"
    /\ NoKey
    /\ UNCHANGED store

\* check_player_retirement(player_data)
CheckPlayerRetirement ==
    /\ Fresh
    /\ \E age \in MinAge..MaxAge, salary \in Salaries, club \in ClubFields,
          random_value \in UniformDraws(0, Scale - 1) :
          LET player_data == ("age" :> age) @@ ("salary" :> salary) @@ club
          IN  /\ args' = [player_data |-> player_data, random_value |-> random_value]
              /\ ret' = check_player_retirement(player_data, random_value)
    /\ call' = "check_player_retirement"
    /\ NoKey
    /\ UNCHANGED store

-----------------------------------------------------------------------------
(* generate_player_attributes *)

\* int(n / d): truncation towards zero
IntTrunc(n, d) == IF n >= 0 THEN n \div d ELSE -((-n) \div d)

\* the position means are kept in hundredths of a skill point
MeanUnit == 100

\* the means a row of the cached position averages holds: no value, the mean
\* 0.0 of a 0/1 skill, and the means 90.0 and 99.0 of numeric skills
MeanValues == {NaN, 0, 90 * MeanUnit, 99 * MeanUnit}

\* the cached position averages: none (no db_path), or a frame with a row for position "7"
AttributeAverages == {None} \cup {("7" :> row) : row \in [Range(SkillsLower) -> MeanValues]}

\* three of the 28 entries of the generic baseline table, one for each of its values
basic_attrs == [attack |-> 50, balance |-> 60, stamina |-> 70]

\* random.uniform(-8, 8): the two ends and the middle
Variations == {-(8 * Scale), 0, 8 * Scale}

\* 0.6 + (age - 16) * 0.075
AgeFactor(age) == (6 * Scale) \div 10 + (age - 16) * ((75 * Scale) \div 1000)

AttributeValue_unclamped(base_value, age_factor, variation) ==
    IntTrunc(base_value * age_factor + variation * MeanUnit, Scale * MeanUnit)

\* max(1, min(99, int(base_value * age_factor + variation))), base_value in hundredths
AttributeValue(base_value, age_factor, variation) ==
    LET final_value == IntTrunc(base_value * age_factor + variation * MeanUnit, Scale * MeanUnit)
    IN  Max(1, Min(99, final_value))

\* generate_player_attributes once the variation of every skill is drawn
generate_player_attributes(age, position, position_averages, variation) ==
    LET age_factor == AgeFactor(age)
    IN  IF position_averages # None /\ position \in DOMAIN position_averages
        THEN LET pos_avg == position_averages[position]
                 present == {skill \in DOMAIN pos_avg : pos_avg[skill] # NaN}
             IN  [skill \in present |-> AttributeValue(pos_avg[skill], age_factor, variation[skill])]
        ELSE [skill \in DOMAIN basic_attrs |->
                 AttributeValue(basic_attrs[skill] * MeanUnit, age_factor, variation[skill])]

\* generate_player_attributes(age, position, db_path), for the ages generate_new_player draws
GeneratePlayerAttributes ==
    /\ Fresh
    /\ \E age \in 16..18, position \in {"7", "CMF"}, position_averages \in AttributeAverages :
          LET skills == IF position_averages # None /\ position \in DOMAIN position_averages
                        THEN Range(SkillsLower) ELSE DOMAIN basic_attrs
          IN  \E variation \in [skills -> Variations] :
                 /\ args' = [age |-> age, position |-> position, position_averages |-> position_averages]
                 /\ ret' = [attributes |-> generate_player_attributes(age, position, position_averages, variation)]
    /\ call' = "generate_player_attributes"
    /\ NoKey
    /\ UNCHANGED store

-----------------------------------------------------------------------------
(* calculate_player_skill_development *)

\* x * y of two fixed-point numbers
Times(x, y) == (x * y) \div Scale

\* n tenths as a fixed-point number
Tenths(n) == n * (Scale \div 10)

AgeSteps_goat_declines(profile_type) ==
    IF profile_type = 8
    THEN <<<<25, 8>>, <<30, 6>>, <<35, 4>>, <<40, 2>>, <<999, -1>>>>
    ELSE <<<<999, 0>>>>

\* get_age_development_multiplier: the age limits of a profile and the multiplier up to each
AgeSteps(profile_type) ==
    CASE profile_type = 1 -> <<<<25, 5>>, <<30, 10>>, <<34, 2>>, <<37, -1>>, <<999, -3>>>>
      [] profile_type = 2 -> <<<<20, 12>>, <<25, 6>>, <<28, 0>>, <<32, -3>>, <<999, -7>>>>
      [] profile_type = 3 -> <<<<26, 6>>, <<32, 2>>, <<36, -1>>, <<999, -2>>>>
      [] profile_type = 4 -> <<<<22, 4>>, <<26, 1>>, <<30, -2>>, <<34, -4>>, <<999, -8>>>>
      [] profile_type = 5 -> <<<<25, 7>>, <<30, 4>>, <<35, 2>>, <<40, 0>>, <<999, -1>>>>
      [] profile_type = 6 -> <<<<20, 6>>, <<23, 15>>, <<26, 12>>, <<29, 1>>, <<999, -5>>>>
      [] profile_type = 7 -> <<<<22, 9>>, <<25, 3>>, <<28, -3>>, <<999, -7>>>>
      [] profile_type = 8 -> <<<<25, 8>>, <<30, 6>>, <<35, 4>>, <<40, 2>>, <<999, 0>>>>
      [] profile_type = 9 -> <<<<22, 2>>, <<25, 0>>, <<28, -3>>, <<32, -6>>, <<999, -9>>>>
      [] OTHER            -> <<<<23, 8>>, <<28, 3>>, <<32, 0>>, <<35, -2>>, <<999, -5>>>>

get_age_development_multiplier(age, profile_type) ==
    LET steps == AgeSteps(profile_type)
        first == CHOOSE i \in DOMAIN steps : age <= steps[i][1] /\ \A j \in 1..(i - 1) : age > steps[j][1]
    IN  Tenths(steps[first][2])

\* the age multiplier and the base multiplier of a decoded development key
ProfileMultipliers(d, age) ==
    IF "is_mixed" \in DOMAIN d /\ d.is_mixed
    THEN LET n == Min(Len(d.profiles), Len(d.weights))
         IN  [age_multiplier |-> SumSeq([i \in 1..n |->
                                     Times(get_age_development_multiplier(age, d.profiles[i]), d.weights[i])]),
              base_multiplier |-> Scale]
    ELSE [age_multiplier |-> get_age_development_multiplier(age, d.profile_type),
          base_multiplier |-> d.base_multiplier]

\* the weights of a position without a row in the averages
DefaultWeights == [balance |-> Scale, consistency |-> Scale, condition_fitness |-> Scale]

\* get_position_skill_weights_from_averages, for a frame that is not None
get_position_skill_weights_from_averages(pos_avg_df, registered_position) ==
    IF registered_position \notin DOMAIN pos_avg_df THEN DefaultWeights
    ELSE LET pos_averages == pos_avg_df[registered_position]
             present == {pos_averages[skill] : skill \in DOMAIN pos_averages} \ {NaN}
             max_avg == CHOOSE m \in present : \A v \in present : v <= m
         IN  [skill \in DOMAIN pos_averages |->
                 IF pos_averages[skill] # NaN /\ pos_averages[skill] > 0
                 THEN Max(Scale \div 2, Min(2 * Scale, (pos_averages[skill] * 2 * Scale) \div max_avg))
                 ELSE Scale \div 2]

shooting_skills == {"shot_accuracy", "shot_power", "shot_technique", "free_kick_accuracy"}

physical_skills == {"top_speed", "acceleration", "stamina", "jump", "balance"}

apply_development_trait_effects(position_weights, trait_type) ==
    LET values     == {position_weights[skill] : skill \in DOMAIN position_weights}
        max_weight == CHOOSE m \in values : \A v \in values : v <= m
        Scaled(skill, up, down) ==
            IF skill \in up THEN (position_weights[skill] * 15) \div 10
            ELSE IF skill \in down THEN (position_weights[skill] * 7) \div 10
            ELSE position_weights[skill]
    IN  [skill \in DOMAIN position_weights |->
            CASE trait_type = 1 -> IF position_weights[skill] > Scale
                                   THEN Max(Scale, max_weight - position_weights[skill] + Scale)
                                   ELSE position_weights[skill]
              [] trait_type = 2 -> Scaled(skill, shooting_skills, physical_skills)
              [] trait_type = 3 -> Scaled(skill, physical_skills, shooting_skills)
              [] OTHER          -> position_weights[skill]]

\* calculate_performance_boost once performance_random is drawn
calculate_performance_boost(player_data, performance_random) ==
    LET games_boost   == Min(Scale \div 2, DictGet(player_data, "games_played", 0) * (Scale \div 50))
        goals_boost   == Min((8 * Scale) \div 10, DictGet(player_data, "goals", 0) * (Scale \div 10))
        assists_boost == Min((6 * Scale) \div 10, DictGet(player_data, "assists", 0) * ((8 * Scale) \div 100))
    IN  [games_boost   |-> Times(games_boost, performance_random),
         goals_boost   |-> Times(goals_boost, performance_random),
         assists_boost |-> Times(assists_boost, performance_random)]

\* four of the 28 entries of skill_columns
DevSkills == <<"shot_accuracy", "stamina", "technique", "goal_keeping">>

\* value_modifier, in tenths
ValueModifier(current_value, base_change) ==
    IF base_change > 0
    THEN IF current_value >= 95 THEN 3
         ELSE IF current_value >= 90 THEN 5
         ELSE IF current_value >= 85 THEN 7
         ELSE IF current_value >= 75 THEN 9
         ELSE 10
    ELSE IF current_value >= 95 THEN 15
         ELSE IF current_value >= 90 THEN 13
         ELSE IF current_value >= 85 THEN 11
         ELSE 10

\* the boost added to the change of a skill
SkillBoost(player_data, skill, performance_boost) ==
    IF skill \in {"attack", "shot_accuracy", "shot_power", "shot_technique"}
       /\ DictGet(player_data, "goals", 0) > 0
    THEN performance_boost.goals_boost
    ELSE IF skill \in {"short_pass_accuracy", "long_pass_accuracy", "technique"}
            /\ DictGet(player_data, "assists", 0) > 0
    THEN performance_boost.assists_boost
    ELSE IF skill \in {"stamina", "consistency", "condition_fitness"}
            /\ DictGet(player_data, "games_played", 0) > 0
    THEN performance_boost.games_boost
    ELSE 0

NewValue_unclamped(current_value, skill_change) == IntTrunc(current_value * Scale + skill_change, Scale)

NewValue_floor_zero(current_value, skill_change) ==
    Max(0, Min(99, IntTrunc(current_value * Scale + skill_change, Scale)))

\* max(1, min(99, int(current_value + skill_change)))
NewValue(current_value, skill_change) ==
    Max(1, Min(99, IntTrunc(current_value * Scale + skill_change, Scale)))

\* the entry of skill_changes for one skill, once skill_random is drawn
SkillChange(player_data, skill, final_multiplier, position_weights, performance_boost, skill_random) ==
    LET current_value == player_data[skill]
        skill_weight  == DictGet(position_weights, skill, Scale)
        base_change   == Times(final_multiplier, skill_weight)
        modified      == (base_change * ValueModifier(current_value, base_change)) \div 10
        boosted       == modified + SkillBoost(player_data, skill, performance_boost)
        skill_change  == Times(boosted, skill_random)
        new_value     == NewValue(current_value, skill_change)
    IN  [current |-> current_value,
         change  |-> new_value - current_value,
         new     |-> new_value,
         weight  |-> skill_weight]

\* calculate_player_skill_development once the random numbers are drawn;
\* an exception leaves the function without a report
calculate_player_skill_development(player_data, k, trait_key, pos_avg_df, random_factor, performance_random, skill_random) ==
    LET decoded    == decode_mixed_development_key(k)
        trait_type == trait_key % 256
        age        == DictGet(player_data, "age", 25)
        registered_position == DictGet(player_data, "registered_position", "7")
        mult       == ProfileMultipliers(decoded, age)
        position_weights ==
            apply_development_trait_effects(
                get_position_skill_weights_from_averages(pos_avg_df, registered_position), trait_type)
        final_multiplier  == Times(Times(mult.age_multiplier, mult.base_multiplier), random_factor)
        performance_boost == calculate_performance_boost(player_data, performance_random)
        present  == {skill \in Range(DevSkills) : skill \in DOMAIN player_data}
        reported == {skill \in present : ~(skill = "goal_keeping" /\ registered_position # "0")}
        changes  == [skill \in reported |->
                        SkillChange(player_data, skill, final_multiplier, position_weights,
                                    performance_boost, skill_random[skill])]
    IN  IF pos_avg_df = None THEN [error |-> "AttributeError"]
        ELSE IF \E skill \in present : player_data[skill] = NaN THEN [error |-> "ValueError"]
        ELSE [age_multiplier  |-> mult.age_multiplier,
              base_multiplier |-> mult.base_multiplier,
              final_multiplier |-> final_multiplier,
              skill_changes   |-> changes,
              total_skill_change |-> SumSeq([i \in 1..Len(DevSkills) |->
                                        IF DevSkills[i] \in reported THEN changes[DevSkills[i]].change ELSE 0]),
              is_mixed        |-> "is_mixed" \in DOMAIN decoded /\ decoded.is_mixed]

\* the development keys a player is drawn with: single keys of the regular,
\* decliner and GOAT profiles, the column default 0, two mixed keys, and a
\* key as generate_proper_regen packs it
DevelopmentKeys ==
    {generate_development_key(0, Scale), generate_development_key(4, (15 * Scale) \div 10),
     generate_development_key(8, (7 * Scale) \div 10), Key(0, 0),
     EncodeMixed(2, <<4, 8>>, <<(6 * Scale) \div 10, (4 * Scale) \div 10>>),
     EncodeMixed(3, <<9, 2, 6>>, <<Scale \div 2, (3 * Scale) \div 10, (2 * Scale) \div 10>>),
     Key(0, BitOr(BitOr(ShiftLeft(2, 20), ShiftLeft(1, 10)), 0))}

\* the keys of DEVELOPMENT_TRAITS
DEVELOPMENT_TRAITS == 0..3

\* the ages a developing player is drawn with
DevelopmentAges == {17, 24, 31, 38, 45}

\* the skill values a developing player is drawn with: all lowest, all
\* highest, mixed, one skill without a column, one skill without a value
DevelopmentRows ==
    {[skill \in Range(DevSkills) |-> 1], [skill \in Range(DevSkills) |-> 99],
     [shot_accuracy |-> 86, stamina |-> 94, technique |-> 50, goal_keeping |-> 75],
     [shot_accuracy |-> 86, stamina |-> 94, goal_keeping |-> 75],
     [shot_accuracy |-> 86, stamina |-> NaN, technique |-> 50, goal_keeping |-> 75]}

\* the season record of a developing player: none, or games, goals and assists
PerformanceRecords == {EmptyDict, [games_played |-> 30, goals |-> 10, assists |-> 2]}

\* the cached position averages: None when the database cannot be read, or
\* a frame with a row for the midfielders "7" and a row for the goalkeepers "0"
DevelopmentAverages ==
    {None,
     [p \in {"7", "0"} |->
        IF p = "7"
        THEN [shot_accuracy |-> 60 * MeanUnit, stamina |-> 80 * MeanUnit,
              technique |-> 75 * MeanUnit, goal_keeping |-> 40 * MeanUnit]
        ELSE [shot_accuracy |-> 45 * MeanUnit, stamina |-> 70 * MeanUnit,
              technique |-> 50 * MeanUnit, goal_keeping |-> 85 * MeanUnit]]}

\* calculate_player_skill_development(player_data, development_key, trait_key)
CalculatePlayerSkillDevelopment ==
    /\ Fresh
    /\ \E k \in DevelopmentKeys, trait_key \in DEVELOPMENT_TRAITS, age \in DevelopmentAges,
          position \in {"7", "0", "3"}, row \in DevelopmentRows, record \in PerformanceRecords,
          pos_avg_df \in DevelopmentAverages :
          LET player_data == ("age" :> age) @@ ("registered_position" :> position) @@ row @@ record
          IN  \E random_factor \in EndDraws((75 * Scale) \div 100, (125 * Scale) \div 100),
                 performance_random \in EndDraws((8 * Scale) \div 10, (12 * Scale) \div 10),
                 skill_random \in [Range(DevSkills) -> EndDraws((7 * Scale) \div 10, (13 * Scale) \div 10)] :
                 /\ args' = [player_data |-> player_data, development_key |-> k,
                             trait_key |-> trait_key, pos_avg_df |-> pos_avg_df]
                 /\ ret' = calculate_player_skill_development(player_data, k, trait_key, pos_avg_df,
                                                             random_factor, performance_random, skill_random)
    /\ call' = "calculate_player_skill_development"
    /\ NoKey
    /\ UNCHANGED store

\* apply_development_trait_effects(position_weights, trait_type)
ApplyDevelopmentTraitEffects ==
    /\ Fresh
    /\ \E position_weights \in [{"shot_accuracy", "stamina", "technique"} ->
                                    {Scale \div 2, (8 * Scale) \div 10, Scale, (15 * Scale) \div 10, 2 * Scale}],
          trait_type \in DEVELOPMENT_TRAITS :
          /\ args' = [position_weights |-> position_weights, trait_type |-> trait_type]
          /\ ret' = [modified_weights |-> apply_development_trait_effects(position_weights, trait_type)]
    /\ call' = "apply_development_trait_effects"
    /\ NoKey
    /\ UNCHANGED store

NextDevelopment == CalculatePlayerSkillDevelopment \/ ApplyDevelopmentTraitEffects

\* the calls of calculate_player_skill_development
SpecDevelopment == Init /\ [][NextDevelopment]_vars

-----------------------------------------------------------------------------
(* calculate_player_skill_development, season after season *)

\* the seasons a player is developed for
MaxSeasons == 3

\* the skill values the player starts with
SeasonRows ==
    {[skill \in Range(DevSkills) |-> 1], [skill \in Range(DevSkills) |-> 99],
     [shot_accuracy |-> 86, stamina |-> 94, technique |-> 50, goal_keeping |-> 75]}

\* the draws of skill_random over one call: all low, all high, or alternating
SeasonSkillRandoms ==
    {[skill \in Range(DevSkills) |-> (7 * Scale) \div 10],
     [skill \in Range(DevSkills) |-> (13 * Scale) \div 10],
     [skill \in Range(DevSkills) |->
         IF skill \in {"shot_accuracy", "technique"} THEN (7 * Scale) \div 10 ELSE (13 * Scale) \div 10]}

\* the first call of calculate_player_skill_development for a player aged
\* 38, with the single key of a decliner or of a GOAT
FirstSeason ==
    /\ Fresh
    /\ \E k \in {generate_development_key(4, (15 * Scale) \div 10), generate_development_key(8, (7 * Scale) \div 10)},
          trait_key \in DEVELOPMENT_TRAITS, position \in {"7", "0", "3"},
          row \in SeasonRows, record \in PerformanceRecords, pos_avg_df \in DevelopmentAverages :
          LET player_data == ("age" :> 38) @@ ("registered_position" :> position) @@ row @@ record
          IN  \E random_factor \in EndDraws((75 * Scale) \div 100, (125 * Scale) \div 100),
                 performance_random \in EndDraws((8 * Scale) \div 10, (12 * Scale) \div 10),
                 skill_random \in SeasonSkillRandoms :
                 /\ args' = [player_data |-> player_data, development_key |-> k,
                             trait_key |-> trait_key, pos_avg_df |-> pos_avg_df, season |-> 1]
                 /\ ret' = calculate_player_skill_development(player_data, k, trait_key, pos_avg_df,
                                                             random_factor, performance_random, skill_random)
    /\ call' = "calculate_player_skill_development"
    /\ NoKey
    /\ UNCHANGED store

\* the next call for the same player, on the new values of the last report
NextSeason ==
    /\ call = "calculate_player_skill_development"
    /\ "skill_changes" \in DOMAIN ret
    /\ args.season < MaxSeasons
    /\ LET player_data == [field \in DOMAIN args.player_data |->
                              IF field \in DOMAIN ret.skill_changes
                              THEN ret.skill_changes[field].new ELSE args.player_data[field]]
       IN  \E random_factor \in EndDraws((75 * Scale) \div 100, (125 * Scale) \div 100),
              performance_random \in EndDraws((8 * Scale) \div 10, (12 * Scale) \div 10),
              skill_random \in SeasonSkillRandoms :
              /\ args' = [args EXCEPT !.player_data = player_data, !.season = @ + 1]
              /\ ret' = calculate_player_skill_development(player_data, args.development_key, args.trait_key,
                                                          args.pos_avg_df, random_factor, performance_random,
                                                          skill_random)
    /\ UNCHANGED <<call, gen, development_key, dev_info>>
    /\ UNCHANGED store

NextSeasons == FirstSeason \/ NextSeason

\* the seasons of one player
SpecSeasons == Init /\ [][NextSeasons]_vars

-----------------------------------------------------------------------------
(* generate_new_player, generate_players_for_team *)

\* the positions generate_new_player chooses from
positions == {"GK", "CB", "SB", "DMF", "CMF", "SMF", "AMF", "WF", "SS", "CF"}

\* the ids of the teams table, and the team ids a caller may pass
ExistingTeams == {1, 2}

TeamIds == ExistingTeams \cup {9999}

\* generate_new_player once the age, the position and the variations are drawn
generate_new_player(team_id, position, chosen, age, position_averages, variation) ==
    LET registered_position == IF position = NoPosition THEN chosen ELSE position
    IN  [age |-> age,
         registered_position |-> registered_position,
         club_id |-> team_id,
         games_played |-> 0,
         goals |-> 0,
         assists |-> 0,
         attributes |-> generate_player_attributes(age, registered_position, position_averages, variation)]

\* generate_new_player(team_id, position, db_path)
GenerateNewPlayer ==
    /\ Fresh
    /\ \E team_id \in TeamIds, position \in {NoPosition, "7"}, chosen \in positions, age \in 16..18,
          position_averages \in {None, ("7" :> [skill \in Range(SkillsLower) |-> 90 * MeanUnit])} :
          \E variation \in [Range(SkillsLower) \cup DOMAIN basic_attrs -> EndDraws(-(8 * Scale), 8 * Scale)] :
             /\ args' = [team_id |-> team_id, position |-> position, teams |-> ExistingTeams,
                         position_averages |-> position_averages]
             /\ ret' = generate_new_player(team_id, position, chosen, age, position_averages, variation)
    /\ call' = "generate_new_player"
    /\ NoKey
    /\ UNCHANGED store

\* the largest num_players of a call of generate_players_for_team
MaxNumPlayers == 2

\* generate_players_for_team(team_id, num_players)
GeneratePlayersForTeam ==
    /\ Fresh
    /\ \E team_id \in TeamIds, num_players \in 0..MaxNumPlayers :
          \E chosen \in [1..num_players -> positions], age \in [1..num_players -> 16..18] :
             /\ args' = [team_id |-> team_id, num_players |-> num_players, teams |-> ExistingTeams]
             /\ ret' = [players |-> [i \in 1..num_players |->
                            generate_new_player(team_id, NoPosition, chosen[i], age[i], None,
                                                [skill \in DOMAIN basic_attrs |-> 0])]]
    /\ call' = "generate_players_for_team"
    /\ NoKey
    /\ UNCHANGED store

-----------------------------------------------------------------------------
(* calculate_yearly_wage_raise *)

\* the skill values a player row is drawn with for the wage raise
RaiseSkillValues == {NaN, 60, 72, 80}

\* calculate_yearly_wage_raise(player_row, skills, binaries, salary)
CalculateYearlyWageRaise ==
    /\ Fresh
    /\ \E age \in {NaN, 20, 25, 28, 31, 33}, row \in [Range(SkillsLower) -> RaiseSkillValues],
          binaries \in {{}, {"goal_keeping"}}, salary \in Salaries :
          LET player_row == ("age" :> age) @@ row
              raise      == WageRaiseRange(player_row, SkillsLower, binaries)
          IN  \E rp \in UniformDraws(raise[1], raise[2]) :
                 /\ args' = [player_row |-> player_row, skills |-> SkillsLower, binaries |-> binaries,
                             salary |-> salary, rp |-> rp]
                 /\ ret' = [rise |-> calculate_yearly_wage_raise(rp, salary)]
    /\ call' = "calculate_yearly_wage_raise"
    /\ NoKey
    /\ UNCHANGED store

Next ==
    \/ GenerateMixed
    \/ GenerateMixedSingle
    \/ GenerateProperRegen
    \/ DecodeMixed
    \/ CalculatePlayerSalaryBase
    \/ ComputeSkillMultipliers
    \/ GetAgeMarketValueMultiplier
    \/ CalculatePlayerFinancials
    \/ CalculatePlayerMarketValueOnly
    \/ CheckPlayerRetirement
    \/ GeneratePlayerAttributes
    \/ GenerateNewPlayer
    \/ GeneratePlayersForTeam
    \/ CalculateYearlyWageRaise

Spec == Init /\ [][Next]_vars

-----------------------------------------------------------------------------
(* calculate_position_averages_from_db, get_cached_position_averages *)

\* the database of db_helper and of the scripts
DATABASE == "pes6_league_db.sqlite"

\* two of the 51 skill columns of the SELECT
ProfileSkills == {"attack", "defense"}

\* the rows a players table is made of: midfielders and a goalkeeper of a
\* club, with an absent value, a free agent, and a player of no club at all
ProfileRows ==
    {[club_id |-> 5, registered_position |-> "7", attack |-> 40, defense |-> 61],
     [club_id |-> 5, registered_position |-> "7", attack |-> 81, defense |-> NaN],
     [club_id |-> 5, registered_position |-> "0", attack |-> NaN, defense |-> 90],
     [club_id |-> NO_CLUB, registered_position |-> "7", attack |-> 99, defense |-> 99],
     [club_id |-> NaN, registered_position |-> "3", attack |-> 70, defense |-> 70]}

\* the players table of the database at db_path: the league database, or a
\* second database file with one player
PlayersOf(db_path) ==
    IF db_path = DATABASE THEN db.players
    ELSE <<[club_id |-> 7, registered_position |-> "3", attack |-> 55, defense |-> 66]>>

\* the rows of: SELECT ... FROM players WHERE club_id != 141 (NULL != 141 is not true)
SelectClubPlayers(players) ==
    {i \in DOMAIN players : players[i].club_id # NaN /\ players[i].club_id # NO_CLUB}

RECURSIVE SumOver(_, _, _)
\* the sum of a column over a set of rows
SumOver(players, rows, skill) ==
    IF rows = {} THEN 0
    ELSE LET i == CHOOSE r \in rows : TRUE
         IN  players[i][skill] + SumOver(players, rows \ {i}, skill)

\* Series.mean() over the rows of a group: NaN is skipped, and the mean of no value is NaN
MeanOf_zero_filled(players, group, skill) ==
    LET present == {i \in group : players[i][skill] # NaN}
    IN  (SumOver(players, present, skill) * MeanUnit) \div Cardinality(group)

MeanOf(players, group, skill) ==
    LET present == {i \in group : players[i][skill] # NaN}
    IN  IF present = {} THEN NaN
        ELSE (SumOver(players, present, skill) * MeanUnit) \div Cardinality(present)

\* calculate_position_averages_from_db on a database that can be read
calculate_position_averages_from_db(players) ==
    LET selected == SelectClubPlayers(players)
        index    == {players[i].registered_position : i \in selected} \ {NoPosition}
    IN  IF selected = {} THEN None
        ELSE [position \in index |->
                [skill \in ProfileSkills |->
                    MeanOf(players, {i \in selected : players[i].registered_position = position}, skill)]]

\* get_cached_position_averages: the result, whether the averages were
\* calculated (and the notice of it printed), and the two globals afterwards
get_cached_position_averages_uncached(cache, cache_db_path, db_path) ==
    LET calculated == calculate_position_averages_from_db(PlayersOf(db_path))
    IN  [result |-> calculated, calculated |-> TRUE, cache |-> calculated, cache_db_path |-> db_path]

get_cached_position_averages(cache, cache_db_path, db_path) ==
    IF cache # None /\ cache_db_path = db_path
    THEN [result |-> cache, calculated |-> FALSE, cache |-> cache, cache_db_path |-> cache_db_path]
    ELSE LET calculated == calculate_position_averages_from_db(PlayersOf(db_path))
         IN  [result |-> calculated, calculated |-> TRUE, cache |-> calculated, cache_db_path |-> db_path]

\* the players a players table may hold
MaxPlayers == 3

\* the league database holds no player or one player
InitCache ==
    /\ call = "none"
    /\ gen = None
    /\ development_key = Key(0, 0)
    /\ dev_info = None
    /\ args = None
    /\ ret = None
    /\ POSITION_AVERAGES_CACHE = None
    /\ POSITION_AVERAGES_CACHE_DB_PATH = None
    /\ db \in {[players |-> <<>>]} \cup {[players |-> <<row>>] : row \in ProfileRows}
    /\ locals = None

\* get_cached_position_averages(db_path)
GetCachedPositionAverages ==
    /\ \E db_path \in {DATABASE, "test.sqlite"} :
          LET got == get_cached_position_averages(POSITION_AVERAGES_CACHE, POSITION_AVERAGES_CACHE_DB_PATH, db_path)
          IN  /\ args' = [db_path |-> db_path]
              /\ ret' = [result |-> got.result, calculated |-> got.calculated]
              /\ POSITION_AVERAGES_CACHE' = got.cache
              /\ POSITION_AVERAGES_CACHE_DB_PATH' = got.cache_db_path
    /\ call' = "get_cached_position_averages"
    /\ UNCHANGED db
    /\ UNCHANGED <<gen, development_key, dev_info, locals>>

\* clear_position_averages_cache()
ClearPositionAveragesCache ==
    /\ POSITION_AVERAGES_CACHE' = None
    /\ POSITION_AVERAGES_CACHE_DB_PATH' = None
    /\ call' = "clear_position_averages_cache"
    /\ args' = None
    /\ ret' = None
    /\ UNCHANGED db
    /\ UNCHANGED <<gen, development_key, dev_info, locals>>

\* insert_new_player_to_database(db_path, player_data) on the league database
InsertNewPlayerToDatabase ==
    /\ Len(db.players) < MaxPlayers
    /\ \E player_data \in ProfileRows :
          /\ db' = [db EXCEPT !.players = Append(@, player_data)]
          /\ args' = [db_path |-> DATABASE, player_data |-> player_data]
          /\ ret' = [player_id |-> Len(db.players) + 1]
    /\ call' = "insert_new_player_to_database"
    /\ UNCHANGED <<POSITION_AVERAGES_CACHE, POSITION_AVERAGES_CACHE_DB_PATH>>
    /\ UNCHANGED <<gen, development_key, dev_info, locals>>

\* change_player_team: UPDATE players SET club_id = ? WHERE id = ?
ChangePlayerTeam ==
    /\ \E player_id \in DOMAIN db.players, new_team_id \in {5, NO_CLUB} :
          /\ db' = [db EXCEPT !.players[player_id].club_id = new_team_id]
          /\ args' = [player_id |-> player_id, team_id |-> new_team_id]
    /\ ret' = None
    /\ call' = "change_player_team"
    /\ UNCHANGED <<POSITION_AVERAGES_CACHE, POSITION_AVERAGES_CACHE_DB_PATH>>
    /\ UNCHANGED <<gen, development_key, dev_info, locals>>

NextCache ==
    \/ GetCachedPositionAverages
    \/ ClearPositionAveragesCache
    \/ InsertNewPlayerToDatabase
    \/ ChangePlayerTeam

\* the position averages, their cache, and the changes of the players table
SpecCache == InitCache /\ [][NextCache]_vars

-----------------------------------------------------------------------------
(* update_all_player_salaries *)

\* the players of one batch
batch_size == 100

\* the most players the players table holds during a salary update
MaxSalaryPlayers == 201

\* an age column that holds a text float() cannot read
NotNumeric == -888888

\* the kinds of player: a player of a club without skill values, and the
\* players at the places of the table that are not plain
PlayerKinds ==
    LET plain == [club_id |-> 5, registered_position |-> "7", age |-> 25, salary |-> GLOBAL_BASE_SALARY,
                  market_value |-> 0, contract_years_remaining |-> 0, yearly_wage_rise |-> 0,
                  attack |-> NaN, defense |-> NaN]
    IN  [plain       |-> plain,
         text_age    |-> [plain EXCEPT !.age = NotNumeric],
         null_salary |-> [plain EXCEPT !.salary = NaN],
         free_agent  |-> [plain EXCEPT !.club_id = NO_CLUB]]

\* the players tables a salary update starts from: n players, plain except at the places 2 and 101
SalaryTables ==
    {[id \in 1..n |-> IF id \in DOMAIN special THEN PlayerKinds[special[id]] ELSE PlayerKinds.plain] :
        n \in {0, 1, 100, 101, MaxSalaryPlayers}, special \in [{2, 101} -> DOMAIN PlayerKinds]}

\* the ids of: SELECT ... FROM players WHERE club_id != 141 ORDER BY id
FetchAll(players) ==
    LET selected == SelectClubPlayers(players)
    IN  [k \in 1..Cardinality(selected) |->
            CHOOSE id \in selected : Cardinality({j \in selected : j <= id}) = k]

InitSalaries ==
    /\ call = "none"
    /\ gen = None
    /\ development_key = Key(0, 0)
    /\ dev_info = None
    /\ args = None
    /\ ret = None
    /\ POSITION_AVERAGES_CACHE = None
    /\ POSITION_AVERAGES_CACHE_DB_PATH = None
    /\ db \in {[players |-> table] : table \in SalaryTables}
    /\ locals = None

\* the start of update_all_player_salaries, up to the loop over the batches
StartUpdate ==
    /\ locals = None
    /\ LET players == FetchAll(db.players)
       IN  locals' = [pc |-> IF players = <<>> THEN "returned" ELSE "player",
                      players |-> players, fetched |-> db.players, conn |-> db.players,
                      next |-> 1, updated_count |-> 0, errors |-> 0, interrupted |-> FALSE]
    /\ UNCHANGED <<db, POSITION_AVERAGES_CACHE, POSITION_AVERAGES_CACHE_DB_PATH>>
    /\ call' = "update_all_player_salaries"
    /\ UNCHANGED <<gen, development_key, dev_info, args, ret>>

\* one pass of the loop over the players of a batch
ProcessPlayer ==
    /\ locals # None /\ locals.pc = "player" /\ ~locals.interrupted
    /\ LET id          == locals.players[locals.next]
           player_data == locals.fetched[id]
           got         == get_cached_position_averages(POSITION_AVERAGES_CACHE,
                                                       POSITION_AVERAGES_CACHE_DB_PATH, DATABASE)
           batch_ends  == \/ locals.next % batch_size = 0
                          \/ locals.next = Len(locals.players)
           after       == [locals EXCEPT !.next = @ + 1,
                                         !.pc = IF batch_ends THEN "commit" ELSE "player"]
       IN  IF player_data.age = NotNumeric
           THEN /\ locals' = [after EXCEPT !.errors = @ + 1]
                /\ UNCHANGED <<POSITION_AVERAGES_CACHE, POSITION_AVERAGES_CACHE_DB_PATH>>
           ELSE /\ POSITION_AVERAGES_CACHE' = got.cache
                /\ POSITION_AVERAGES_CACHE_DB_PATH' = got.cache_db_path
                /\ LET years == ContractYearsRange(player_data.age)
                       raise == WageRaiseRange(player_data, SkillsLower, {})
                       \* every draw at the low end of its interval, the salary factor at its high end
                       new_financials ==
                           calculate_player_financials(player_data, got.result, -((15 * Scale) \div 100),
                                                       (20 * Scale) \div 100, years[1], raise[1])
                       \* UPDATE players SET salary = ?, market_value = ?, ... WHERE id = ?
                       conn == [locals.conn EXCEPT ![id] =
                                   [@ EXCEPT !.salary = new_financials.salary,
                                             !.market_value = new_financials.market_value,
                                             !.contract_years_remaining = new_financials.contract_years_remaining,
                                             !.yearly_wage_rise = new_financials.yearly_wage_rise]]
                   IN  IF player_data.salary = NaN
                       THEN locals' = [after EXCEPT !.conn = conn, !.errors = @ + 1]
                       ELSE locals' = [after EXCEPT !.conn = conn, !.updated_count = @ + 1]
    /\ UNCHANGED db
    /\ call' = "update_all_player_salaries"
    /\ UNCHANGED <<gen, development_key, dev_info, args, ret>>

CommitBatch_lost ==
    /\ locals # None /\ locals.pc = "commit" /\ ~locals.interrupted
    /\ locals' = [locals EXCEPT !.pc = IF locals.next > Len(locals.players) THEN "done" ELSE "player"]
    /\ UNCHANGED <<db, POSITION_AVERAGES_CACHE, POSITION_AVERAGES_CACHE_DB_PATH>>
    /\ call' = "update_all_player_salaries"
    /\ UNCHANGED <<gen, development_key, dev_info, args, ret>>

\* conn.commit() after the players of a batch
CommitBatch ==
    /\ locals # None /\ locals.pc = "commit" /\ ~locals.interrupted
    /\ db' = [db EXCEPT !.players = locals.conn]
    /\ locals' = [locals EXCEPT !.pc = IF locals.next > Len(locals.players) THEN "done" ELSE "player"]
    /\ UNCHANGED <<POSITION_AVERAGES_CACHE, POSITION_AVERAGES_CACHE_DB_PATH>>
    /\ call' = "update_all_player_salaries"
    /\ UNCHANGED <<gen, development_key, dev_info, args, ret>>

\* the run is interrupted: the connection is lost with what it had not committed
Interrupt ==
    /\ locals # None /\ locals.pc \in {"player", "commit"} /\ ~locals.interrupted
    /\ locals' = [locals EXCEPT !.interrupted = TRUE, !.conn = db.players]
    /\ UNCHANGED <<db, POSITION_AVERAGES_CACHE, POSITION_AVERAGES_CACHE_DB_PATH>>
    /\ call' = "update_all_player_salaries"
    /\ UNCHANGED <<gen, development_key, dev_info, args, ret>>

NextSalaries == StartUpdate \/ ProcessPlayer \/ CommitBatch \/ Interrupt

\* a run of update_all_player_salaries
SpecSalaries == InitSalaries /\ [][NextSalaries]_vars

-----------------------------------------------------------------------------
(* assign_development_keys_to_players *)

\* the players a players table holds when the development keys are assigned
MaxKeyPlayers == 2

\* some of the keys generate_mixed_development_key returns: mixed keys of
\* the regular and late-bloomer profiles, single keys of the first and the
\* last profile with the lowest and the highest multiplier
GeneratedKeys ==
    {EncodeMixed(2, <<0, 1>>, NormalizeWeights(<<w, Scale - w>>)) : w \in {Scale \div 10, (9 * Scale) \div 10}}
    \cup {generate_development_key(p, m) : p \in {0, 9}, m \in {(7 * Scale) \div 10, (15 * Scale) \div 10}}

\* the keys of a stored player: the column default 0, NULL, or keys assigned earlier
KeyRows ==
    {[development_key |-> k, trait_key |-> t] :
        k \in {Key(0, 0), None, generate_development_key(4, (15 * Scale) \div 10)}, t \in {0, 2}}

\* SELECT ... WHERE development_key = 0 OR development_key IS NULL
PlayersWithoutKeys_everyone(players) == DOMAIN players

PlayersWithoutKeys(players) ==
    {id \in DOMAIN players : players[id].development_key = Key(0, 0) \/ players[id].development_key = None}

InitKeys ==
    /\ call = "none"
    /\ gen = None
    /\ development_key = Key(0, 0)
    /\ dev_info = None
    /\ args = None
    /\ ret = None
    /\ POSITION_AVERAGES_CACHE = None
    /\ POSITION_AVERAGES_CACHE_DB_PATH = None
    /\ db \in {[players |-> <<>>]} \cup {[players |-> <<row>>] : row \in KeyRows}
    /\ locals = None

\* assign_development_keys_to_players(db_path) on a database that can be written
AssignDevelopmentKeysToPlayers ==
    /\ LET players_without_keys == PlayersWithoutKeys(db.players)
       IN  \E complete \in [players_without_keys -> GeneratedKeys \X {0, 3}] :
              /\ db' = [db EXCEPT !.players =
                          [id \in DOMAIN db.players |->
                              IF id \in players_without_keys
                              THEN [db.players[id] EXCEPT !.development_key = complete[id][1],
                                                          !.trait_key = complete[id][2]]
                              ELSE db.players[id]]]
              /\ ret' = [players_processed |-> Cardinality(players_without_keys),
                         new_keys_assigned |-> Cardinality(players_without_keys),
                         existing_keys_preserved |-> 0]
    /\ call' = "assign_development_keys_to_players"
    /\ args' = [db_path |-> DATABASE]
    /\ UNCHANGED <<POSITION_AVERAGES_CACHE, POSITION_AVERAGES_CACHE_DB_PATH>>
    /\ UNCHANGED <<gen, development_key, dev_info, locals>>

\* insert_new_player_to_database with a player of KeyRows
InsertPlayerWithKeys ==
    /\ Len(db.players) < MaxKeyPlayers
    /\ \E player_data \in KeyRows :
          /\ db' = [db EXCEPT !.players = Append(@, player_data)]
          /\ args' = [db_path |-> DATABASE, player_data |-> player_data]
          /\ ret' = [player_id |-> Len(db.players) + 1]
    /\ call' = "insert_new_player_to_database"
    /\ UNCHANGED <<POSITION_AVERAGES_CACHE, POSITION_AVERAGES_CACHE_DB_PATH>>
    /\ UNCHANGED <<gen, development_key, dev_info, locals>>

NextKeys == AssignDevelopmentKeysToPlayers \/ InsertPlayerWithKeys

\* the assignment of development keys to the players of the database
SpecKeys == InitKeys /\ [][NextKeys]_vars

-----------------------------------------------------------------------------
(* accept_offer, reject_offer *)

\* the requests the server works on at the same time (one thread and one connection each)
MaxRequests == 2

\* the offers table: offer 1 from user 1 to user 2, player 10 and money for
\* player 20 and money; the users 1, 2 and 3 each have the league team of the same id
OfferRows ==
    {(1 :> [sender_id |-> 1, receiver_id |-> 2, status |-> "pending",
            offered_players |-> {10}, requested_players |-> requested,
            offered_money |-> offered_money, requested_money |-> requested_money]) :
        requested \in {{}, {20}}, offered_money \in {0, 500}, requested_money \in {0, 200}}

InitOffers ==
    /\ call = "none"
    /\ gen = None
    /\ development_key = Key(0, 0)
    /\ dev_info = None
    /\ args = None
    /\ ret = None
    /\ POSITION_AVERAGES_CACHE = None
    /\ POSITION_AVERAGES_CACHE_DB_PATH = None
    /\ db \in {[offers |-> offers,
                team_players |-> {<<1, 10>>, <<2, 20>>, <<3, 30>>},
                league_teams |-> [team \in {1, 2, 3} |-> [budget |-> 1000]]] : offers \in OfferRows}
    /\ locals = [r \in 1..MaxRequests |-> [pc |-> "idle"]]

\* accept_offer or reject_offer up to the test of the fetched offer: no
\* offer ends the request with 'Offer not found or already handled.'
SelectOffer(r, name) ==
    /\ locals[r].pc = "idle"
    /\ \E offer_id \in {1, 2}, current_user \in {1, 2, 3} :
          LET offer == IF /\ offer_id \in DOMAIN db.offers
                          /\ db.offers[offer_id].receiver_id = current_user
                          /\ db.offers[offer_id].status = "pending"
                       THEN db.offers[offer_id] ELSE None
          IN  /\ locals' = [locals EXCEPT ![r] =
                               [pc |-> IF offer = None THEN "done" ELSE name, offer_id |-> offer_id,
                                current_user |-> current_user, offer |-> offer]]
              /\ args' = [offer_id |-> offer_id, current_user |-> current_user]
              /\ ret' = IF offer = None THEN [error |-> "Offer not found or already handled."] ELSE None
    /\ UNCHANGED db
    /\ call' = name
    /\ UNCHANGED <<gen, development_key, dev_info, POSITION_AVERAGES_CACHE, POSITION_AVERAGES_CACHE_DB_PATH>>

\* the team_players table after the players of an offer have changed teams
MovePlayers(team_players, from_team, to_team, pids) ==
    (team_players \ {<<from_team, pid>> : pid \in pids}) \cup {<<to_team, pid>> : pid \in pids}

\* accept_offer from the transfer of the players to db_helper.commit()
AcceptWrite(r) ==
    /\ locals[r].pc = "accept_offer"
    /\ LET offer == locals[r].offer
           sender_team_id    == offer.sender_id
           recipient_team_id == offer.receiver_id
           moved == MovePlayers(MovePlayers(db.team_players, sender_team_id, recipient_team_id,
                                            offer.offered_players),
                                recipient_team_id, sender_team_id, offer.requested_players)
           new_sender_budget ==
               db.league_teams[sender_team_id].budget - offer.offered_money + offer.requested_money
           new_recipient_budget ==
               db.league_teams[recipient_team_id].budget + offer.offered_money - offer.requested_money
       IN  /\ db' = [db EXCEPT !.team_players = moved,
                               !.league_teams[sender_team_id].budget = new_sender_budget,
                               !.league_teams[recipient_team_id].budget = new_recipient_budget,
                               !.offers[locals[r].offer_id].status = "accepted"]
           /\ ret' = [success |-> TRUE, updated_budget |-> new_recipient_budget]
    /\ locals' = [locals EXCEPT ![r].pc = "done"]
    /\ UNCHANGED args
    /\ call' = "accept_offer"
    /\ UNCHANGED <<gen, development_key, dev_info, POSITION_AVERAGES_CACHE, POSITION_AVERAGES_CACHE_DB_PATH>>

\* reject_offer from the UPDATE of the status to db_helper.commit()
RejectWrite(r) ==
    /\ locals[r].pc = "reject_offer"
    /\ db' = [db EXCEPT !.offers[locals[r].offer_id].status =
                 IF db.offers[locals[r].offer_id].receiver_id = locals[r].current_user
                 THEN "rejected" ELSE @]
    /\ ret' = [success |-> TRUE]
    /\ locals' = [locals EXCEPT ![r].pc = "done"]
    /\ UNCHANGED args
    /\ call' = "reject_offer"
    /\ UNCHANGED <<gen, development_key, dev_info, POSITION_AVERAGES_CACHE, POSITION_AVERAGES_CACHE_DB_PATH>>

NextOffers ==
    \E r \in 1..MaxRequests :
       \/ SelectOffer(r, "accept_offer")
       \/ SelectOffer(r, "reject_offer")
       \/ AcceptWrite(r)
       \/ RejectWrite(r)

\* the requests on the offers of the inbox
SpecOffers == InitOffers /\ [][NextOffers]_vars

-----------------------------------------------------------------------------
(* Development keys: claims *)

Hundredth == Scale \div 100

MixedDecoded == call = "generate_mixed_development_key" /\ dev_info # None

\* the selection loop found num_profiles distinct archetypes (no fallback to regular)
DistinctPicks == Cardinality(Range(gen.profiles)) = Len(gen.profiles)

\* the profiles of d are the profiles of g, and every weight of d is within 0.01 of the weight g gives that profile
SameProfile(d, g) ==
    /\ Len(d.profiles) = Len(g.profiles)
    /\ Range(d.profiles) = Range(g.profiles)
    /\ \A i \in DOMAIN d.profiles, j \in DOMAIN g.profiles :
          d.profiles[i] = g.profiles[j] => Abs(d.weights[i] - g.weights[j]) <= Hundredth

\* C1: decoding a mixed key of generate_mixed_development_key returns the
\* archetypes the generator picked (as a set) with the generator's weights
\* within one percentage point, and re-encoding the decoded profile and
\* decoding it again reproduces the same archetypes and weights.
C1_RoundTrip ==
    (MixedDecoded /\ DistinctPicks) =>
        /\ SameProfile(dev_info, gen)
        /\ SameProfile(decode_mixed_development_key(
                           EncodeMixed(Len(dev_info.profiles), dev_info.profiles, dev_info.weights)),
                       dev_info)

\* C2: in a mixed key bit 31 is set, bits 24-27 read back the number of
\* archetypes picked, and for every i below it the 4-bit field at bit 16+4i
\* reads back the i-th archetype and the 8-bit field at bit 8i the i-th
\* weight as an integer percentage.
C2_FieldsReadBack ==
    (call = "generate_mixed_development_key" /\ DistinctPicks) =>
        /\ development_key.b31 = 1
        /\ Field(development_key.low, 24, 4) = Len(gen.profiles)
        /\ Len(gen.profiles) \in 2..3
        /\ \A i \in DOMAIN gen.profiles :
              /\ gen.profiles[i] \in 0..9
              /\ Field(development_key.low, 16 + 4 * (i - 1), 4) = gen.profiles[i]
              /\ IntPercent(gen.weights[i]) \in 0..100
              /\ Field(development_key.low, 8 * (i - 1), 8) = IntPercent(gen.weights[i])

\* C3: decoding a key of the mixed branch yields 2 or 3 archetypes, with as
\* many weights, and the weights sum to 1.0 within 0.01.
C3_DecodedWeightsSumToOne ==
    MixedDecoded =>
        /\ Len(dev_info.profiles) \in 2..3
        /\ Len(dev_info.weights) = Len(dev_info.profiles)
        /\ Abs(SumSeq(dev_info.weights) - Scale) <= Hundredth

\* C3 witness: a key made of two archetypes, one weight not a whole percentage, has been decoded
C3_Witness ==
    /\ MixedDecoded
    /\ Len(gen.profiles) = 2
    /\ IntPercent(gen.weights[1]) * Hundredth # gen.weights[1]

SingleGenerated == call = "generate_development_key"

\* C4 as stated: a single-profile key has bit 31 clear, fits in the low 13
\* bits, is archetypeIndex*1000 + round(multiplier*100), and decodes to the
\* same archetype index and to the multiplier within 0.01.
C4_Original ==
    SingleGenerated =>
        /\ development_key.b31 = 0
        /\ development_key.low < Pow2(13)
        /\ development_key.low = gen.profile_type * 1000 + RoundHalfEven(gen.base_multiplier * 100, Scale)
        /\ dev_info # None =>
              /\ dev_info.profile_type = gen.profile_type
              /\ Abs(dev_info.base_multiplier - gen.base_multiplier) <= Hundredth

\* C4 amended: a single-profile key has bit 31 clear, fits in the low 14
\* bits, is archetypeIndex*1000 + floor(multiplier*100), and decodes to the
\* same archetype index and to a multiplier that is not above the
\* generator's and less than 0.01 below it.
C4_SingleKeyRoundTrip ==
    SingleGenerated =>
        /\ development_key.b31 = 0
        /\ development_key.low < Pow2(14)
        /\ development_key.low % 1000 \in 70..150
        /\ development_key.low \div 1000 = gen.profile_type
        /\ (development_key.low % 1000) * Scale <= gen.base_multiplier * 100
        /\ ((development_key.low % 1000) + 1) * Scale > gen.base_multiplier * 100
        /\ dev_info # None =>
              /\ dev_info.profile_type = gen.profile_type
              /\ dev_info.base_multiplier <= gen.base_multiplier
              /\ gen.base_multiplier - dev_info.base_multiplier < Hundredth

\* C4 witness: a key of archetype 9 whose multiplier is not a whole number of hundredths has been decoded
C4_Witness ==
    /\ SingleGenerated
    /\ dev_info # None
    /\ gen.profile_type = 9
    /\ gen.base_multiplier % Hundredth >= Hundredth \div 2

\* C5: the development key generate_proper_regen stores has either bit 31
\* set with an archetype count of 2 or 3, archetype indices 0-9 and
\* percentage weights in the bit fields, or bit 31 clear and decodes to an
\* archetype index 0..9 with a multiplier in [0.7, 1.5].
C5_RegenKeyEncoding ==
    (call = "generate_proper_regen" /\ dev_info # None) =>
        \/ /\ development_key.b31 = 1
           /\ Field(development_key.low, 24, 4) \in 2..3
           /\ \A i \in 0..(Field(development_key.low, 24, 4) - 1) :
                 /\ Field(development_key.low, 16 + 4 * i, 4) \in 0..9
                 /\ Field(development_key.low, 8 * i, 8) \in 0..100
        \/ /\ development_key.b31 = 0
           /\ dev_info.profile_type \in 0..9
           /\ dev_info.base_multiplier >= (7 * Scale) \div 10
           /\ dev_info.base_multiplier <= (15 * Scale) \div 10

-----------------------------------------------------------------------------
(* Salary, market value and retirement: claims *)

\* C6: calculate_player_salary_base returns at least GLOBAL_BASE_SALARY and a
\* multiple of 1000, for every player record, position averages (or none),
\* skill list and binary-skill list.
C6_BaseSalaryFloor ==
    call = "calculate_player_salary_base" =>
        /\ ret.salary >= GLOBAL_BASE_SALARY
        /\ ret.salary % 1000 = 0

\* C6 witness: a salary above the floor for a player who lacks one skill and has another one absent
C6_Witness ==
    /\ call = "calculate_player_salary_base"
    /\ ret.salary > GLOBAL_BASE_SALARY
    /\ \E s, t \in Range(args.skills) :
          /\ s \notin DOMAIN args.player_row
          /\ t \in DOMAIN args.player_row /\ args.player_row[t] = NaN

FreeAgentCall ==
    /\ call \in {"calculate_player_financials", "calculate_player_market_value_only"}
    /\ DictGet(args.player_data, "club_id", NaN) \in {NO_CLUB, NaN}

\* C7: the market value is 0 whenever the club of the player is the
\* free-agent club 141 or is missing, in calculate_player_financials and in
\* calculate_player_market_value_only, for every age, skills and salary.
C7_FreeAgentMarketValueZero == FreeAgentCall => ret.market_value = 0

\* C7 witness: calculate_player_financials on a player without a club_id whose salary is above the floor
C7_Witness ==
    /\ call = "calculate_player_financials"
    /\ DictGet(args.player_data, "club_id", NaN) = NaN
    /\ ret.salary > 2 * GLOBAL_BASE_SALARY
    /\ ret.market_value = 0

\* C8: the multiplier of a skill value is non-decreasing in the value over
\* [70, 99], is 0.5 for every value below 70 and 4.0 for every value at or
\* above 99.
C8_SkillMultiplierMonotone ==
    call = "skill_multiplier" =>
        /\ (R_START <= args.v1 /\ args.v1 <= args.v2 /\ args.v2 <= R_END) => ret.m1 <= ret.m2
        /\ args.v1 < R_START => ret.m1 = Scale \div 2
        /\ args.v1 >= R_END => ret.m1 = 4 * Scale

\* C8 witness: two values strictly inside (70, 99) with different multipliers
C8_Witness ==
    /\ call = "skill_multiplier"
    /\ args.v1 = 71 /\ args.v2 = 98
    /\ ret.m1 < ret.m2

\* C9: get_age_market_value_multiplier returns 4.0 at age 16 and below, 1.0
\* at age 29, and 0.01 at age 40 and above.
C9_AgeMultiplierAnchors ==
    (call = "get_age_market_value_multiplier" /\ args.age_val # NaN) =>
        /\ args.age_val <= 16 => ret.multiplier = 4 * Scale
        /\ args.age_val = 29 => ret.multiplier = Scale
        /\ args.age_val >= 40 => ret.multiplier = Scale \div 100

\* C9 witness: the multiplier of age 45
C9_Witness ==
    /\ call = "get_age_market_value_multiplier"
    /\ args.age_val = 45
    /\ ret.multiplier = Scale \div 100

\* C10: for a player younger than 30, check_player_retirement returns
\* wants_to_retire = false and retirement_probability = 0, for every salary
\* and club.
C10_NoRetirementBelowThirty ==
    (call = "check_player_retirement" /\ args.player_data["age"] < 30) =>
        /\ ret.wants_to_retire = FALSE
        /\ ret.retirement_probability = 0

\* C10 witness: a free agent aged 29 with the lowest salary, and a sample of 0
C10_Witness ==
    /\ call = "check_player_retirement"
    /\ args.player_data["age"] = 29
    /\ DictGet(args.player_data, "club_id", NaN) = NO_CLUB
    /\ args.player_data["salary"] = GLOBAL_BASE_SALARY
    /\ args.random_value = 0
    /\ ret.wants_to_retire = FALSE

-----------------------------------------------------------------------------
(* Retirement probability: claims *)

\* a call of check_player_retirement on a player aged 30 or more
RetirementConsidered == call = "check_player_retirement" /\ args.player_data["age"] >= 30

-----------------------------------------------------------------------------
(* Player generation: claims *)

\* C12: for an age in 16..18 and any position, every skill value returned by
\* generate_player_attributes lies within [1, 99], both when it is derived
\* from the row of the position and when the generic baseline table is used
\* because the averages or the row of the position are missing.
C12_AttributesInRange ==
    call = "generate_player_attributes" =>
        \A skill \in DOMAIN ret.attributes :
            ret.attributes[skill] >= 1 /\ ret.attributes[skill] <= 99

\* C12 witness: a 16-year-old whose position row holds a mean of 0.0 for one
\* skill and no mean for another; the clamp raises the first to 1
C12_Witness ==
    /\ call = "generate_player_attributes"
    /\ args.age = 16
    /\ args.position_averages # None
    /\ args.position \in DOMAIN args.position_averages
    /\ args.position_averages[args.position]["attack"] = 0
    /\ args.position_averages[args.position]["defense"] = NaN
    /\ DOMAIN ret.attributes = {"attack", "goal_keeping"}
    /\ ret.attributes["attack"] = 1
    /\ ret.attributes["goal_keeping"] > 50

-----------------------------------------------------------------------------
(* Skill development: claims *)

\* a call of calculate_player_skill_development that returned a report
DevelopmentReported ==
    call = "calculate_player_skill_development" /\ "skill_changes" \in DOMAIN ret

\* C13: for every skill that calculate_player_skill_development reports, the
\* new value lies within [1, 99] and the recorded change equals the new value
\* minus the current value, for every development key, trait key, age and
\* performance record.
C13_SkillChangeInRange ==
    DevelopmentReported =>
        \A skill \in DOMAIN ret.skill_changes :
            LET entry == ret.skill_changes[skill]
            IN  /\ entry.new >= 1
                /\ entry.new <= 99
                /\ entry.current = args.player_data[skill]
                /\ entry.change = entry.new - entry.current

\* C13 witness: a report for a mixed key with a negative multiplier in which
\* a skill at 1 is kept at 1 by the clamp
C13_Witness ==
    /\ DevelopmentReported
    /\ ret.is_mixed
    /\ ret.final_multiplier < -Scale \div 2
    /\ \E s \in DOMAIN ret.skill_changes :
          /\ ret.skill_changes[s].current = 1
          /\ ret.skill_changes[s].new = 1
          /\ ret.skill_changes[s].change = 0

\* the positional rating that stands for a registered position
PositionFlag(registered_position) ==
    CASE registered_position = "GK" -> "gk"
      [] registered_position \in DOMAIN position_to_field -> position_to_field[registered_position]
      [] OTHER -> "none"

\* C14: in every record of generate_proper_regen, of the 12 positional flags
\* exactly the flag that matches the registered position of the retiring
\* player is 1 and the 11 others are 0.
C14_OnePositionalFlag ==
    call = "generate_proper_regen" =>
        /\ DOMAIN ret.positional_attributes = Range(positional_fields)
        /\ Cardinality(DOMAIN ret.positional_attributes) = 12
        /\ \A pos \in DOMAIN ret.positional_attributes :
              ret.positional_attributes[pos] =
                  IF pos = PositionFlag(args.retired_player_data.registered_position) THEN 1 ELSE 0

\* the result is the distinct error of a reference that was not found
ReferenceNotFound(result) == "error" \in DOMAIN result /\ result.error = "reference not found"

\* C15: generating a new player for a team id that refers to no existing
\* team, with generate_new_player or generate_players_for_team, is reported
\* as a 'reference not found' error and returns no player record attached to
\* that id.
C15_UnknownTeamReported ==
    (call \in {"generate_new_player", "generate_players_for_team"} /\ args.team_id \notin args.teams) =>
        ReferenceNotFound(ret)

-----------------------------------------------------------------------------
(* Wage raise, salary base and mixed profiles: claims *)

\* C16: calculate_yearly_wage_raise returns a fraction within [0, 0.25] for
\* every age, skill vector and salary, also after the 1.1 boost of a salary
\* below 5 times the base salary; so does the yearly_wage_rise of
\* calculate_player_financials.
C16_WageRaiseInRange ==
    /\ call = "calculate_yearly_wage_raise" => (ret.rise >= 0 /\ ret.rise <= Scale \div 4)
    /\ call = "calculate_player_financials" =>
           (ret.yearly_wage_rise >= 0 /\ ret.yearly_wage_rise <= Scale \div 4)

\* C16 witness: a young player with high skills and a salary below 5 times
\* the base draws 0.25; the boost takes it to 0.275 and 0.25 is returned
C16_Witness ==
    /\ call = "calculate_yearly_wage_raise"
    /\ args.salary < 5 * GLOBAL_BASE_SALARY
    /\ args.player_row["age"] = 20
    /\ args.rp = Scale \div 4
    /\ ret.rise = Scale \div 4

\* the total score of the skills of calculate_player_financials when the
\* contributions of 'defense' and 'goal_keeping' are multiplied by 4.0 and
\* the contribution of a 0/1 skill by 0.15, times Scale
BoostedScore(player_data, pos_avg_df) ==
    LET pos_spec_avg == PosSpecAvg(player_data, pos_avg_df, SkillsLower)
        binaries     == identify_binary_skills(player_data, SkillsLower)
        Contrib(skill_n) ==
            IF skill_n \notin DOMAIN player_data \/ player_data[skill_n] = NaN THEN 0
            ELSE LET val     == player_data[skill_n]
                     contrib == (val * SkillMultiplier(val) * pos_spec_avg[skill_n]) \div NORM
                     boost   == IF skill_n \in {"defense", "goal_keeping"} THEN 4 ELSE 1
                 IN  IF skill_n \in binaries THEN (contrib * boost * 15) \div 100 ELSE contrib * boost
    IN  SumSeq([i \in 1..Len(SkillsLower) |-> Contrib(SkillsLower[i])])

\* C17: the base salary of calculate_player_financials is computed from a
\* total score in which the contributions of 'defense' and 'goal_keeping'
\* are each multiplied by 4.0 and the contribution of a 0/1 skill by 0.15:
\* the salary returned is that base salary adjusted by at most 20% either
\* way and rounded to a multiple of 1000.
C17_DefenseAndGoalKeepingBoost ==
    call = "calculate_player_financials" =>
        LET base_salary == SalaryFromScore(BoostedScore(args.player_data, args.pos_avg_df))
        IN  /\ ret.salary >= ((base_salary \div 1000) * 8) * 100 - 1000
            /\ ret.salary <= ((base_salary \div 1000) * 12) * 100 + 1000

\* C18: every mixed profile built by generate_mixed_development_key consists
\* of 2 or 3 pairwise distinct archetypes, each with a weight of at least
\* 0.10, and the weights sum to 1.0.
C18_MixedProfileWellFormed ==
    call = "generate_mixed_development_key" =>
        /\ Len(gen.profiles) \in 2..3
        /\ Len(gen.weights) = Len(gen.profiles)
        /\ \A i, j \in DOMAIN gen.profiles : i # j => gen.profiles[i] # gen.profiles[j]
        /\ \A i \in DOMAIN gen.weights : gen.weights[i] >= MinWeight
        /\ SumSeq(gen.weights) = Scale

-----------------------------------------------------------------------------
(* Salary and age in retirement and market value: claims *)

\* the retirement_probability of the player of the call, had the salary been s
ProbabilityAtSalary(s) ==
    check_player_retirement([args.player_data EXCEPT !["salary"] = s], args.random_value).retirement_probability

\* C19: for a fixed age of 30 or more and a fixed club status,
\* check_player_retirement never reports a larger retirement_probability
\* for the higher of two salaries.
C19_HigherSalaryNeverLikelier ==
    RetirementConsidered =>
        \A s \in Salaries :
            s > args.player_data["salary"] => ProbabilityAtSalary(s) <= ret.retirement_probability

\* the market value of the player of the call, had the age been a
MarketValueAtAge(a) ==
    calculate_player_market_value_only([args.player_data EXCEPT !["age"] = a])

\* C20: for a player who has a club, calculate_player_market_value_only
\* returns the current salary times 1.5 times the age multiplier at the age
\* of that player, so that two players with the same salary and the ages 20
\* and 35 get different market values.
C20_MarketValueFollowsAge ==
    (call = "calculate_player_market_value_only"
        /\ args.player_data["age"] # NaN
        /\ DictGet(args.player_data, "club_id", NaN) \notin {NO_CLUB, NaN}) =>
        /\ ret.market_value =
               BaseMarketValue(args.player_data["salary"],
                               get_age_market_value_multiplier(args.player_data["age"]))
        /\ MarketValueAtAge(20) # MarketValueAtAge(35)

-----------------------------------------------------------------------------
(* Skill development on missing data: claims *)

\* C21: calculate_player_skill_development returns a report without raising
\* when the position profile is unavailable, when the position of the player
\* has no row in the profile, and when a developable skill of the player is
\* present without a value; a skill without a value is left out of the report.
C21_DegradesGracefully ==
    call = "calculate_player_skill_development" =>
        /\ "skill_changes" \in DOMAIN ret
        /\ \A skill \in DOMAIN ret.skill_changes : args.player_data[skill] # NaN

\* a report for a single-profile key of the GOAT profile
GoatReported ==
    /\ DevelopmentReported
    /\ args.development_key.b31 = 0
    /\ decode_development_key(args.development_key).profile_type = 8

\* C22: the age multiplier of the GOAT profile is never negative at any age,
\* so a season of calculate_player_skill_development with a single-profile
\* GOAT key never lowers a skill whose current value is within [1, 99].
C22_GoatNeverLowers ==
    /\ \A age \in 0..60 : get_age_development_multiplier(age, 8) >= 0
    /\ GoatReported =>
          /\ ret.age_multiplier >= 0
          /\ \A skill \in DOMAIN ret.skill_changes :
                ret.skill_changes[skill].current \in 1..99 =>
                    ret.skill_changes[skill].new >= ret.skill_changes[skill].current

\* C22 witness: a GOAT report at age 24 in which the technique of 50 rises
C22_Witness ==
    /\ GoatReported
    /\ args.player_data["age"] = 24
    /\ "technique" \in DOMAIN ret.skill_changes
    /\ ret.skill_changes["technique"].current = 50
    /\ ret.skill_changes["technique"].new > 50

\* a report for a player aged 38 with a single-profile decliner key and no
\* games, goals or assists
DeclinerReported ==
    /\ DevelopmentReported
    /\ args.development_key.b31 = 0
    /\ decode_development_key(args.development_key).profile_type = 4
    /\ args.player_data["age"] = 38
    /\ DictGet(args.player_data, "games_played", 0) = 0
    /\ DictGet(args.player_data, "goals", 0) = 0
    /\ DictGet(args.player_data, "assists", 0) = 0

-----------------------------------------------------------------------------
(* Development traits: claims *)

\* C24: the jokester trait inverts the weight distribution: for any two
\* skills a and b of the position weights with weight(a) < weight(b) before
\* apply_development_trait_effects with trait 1, weight(a) >= weight(b)
\* holds afterwards.
C24_JokesterInverts ==
    (call = "apply_development_trait_effects" /\ args.trait_type = 1) =>
        \A a, b \in DOMAIN args.position_weights :
            args.position_weights[a] < args.position_weights[b] =>
                ret.modified_weights[a] >= ret.modified_weights[b]

-----------------------------------------------------------------------------
(* Position averages: claims *)

\* the cache holds a profile that was calculated for db_path
CachedFor(db_path) ==
    POSITION_AVERAGES_CACHE # None /\ POSITION_AVERAGES_CACHE_DB_PATH = db_path

\* C25: once a profile has been computed for a db_path,
\* get_cached_position_averages returns that same profile on every later
\* call for the same db_path without recomputing it, whatever players have
\* been inserted or updated in between; only clear_position_averages_cache or
\* a call for a different db_path makes the next call recompute.
C25_CacheReadThrough ==
    [][/\ (call' = "get_cached_position_averages" /\ CachedFor(args'.db_path)) =>
             /\ ret'.result = POSITION_AVERAGES_CACHE
             /\ ~ret'.calculated
             /\ UNCHANGED <<POSITION_AVERAGES_CACHE, POSITION_AVERAGES_CACHE_DB_PATH>>
       /\ (POSITION_AVERAGES_CACHE # None
           /\ <<POSITION_AVERAGES_CACHE, POSITION_AVERAGES_CACHE_DB_PATH>>' #
                 <<POSITION_AVERAGES_CACHE, POSITION_AVERAGES_CACHE_DB_PATH>>) =>
             \/ call' = "clear_position_averages_cache"
             \/ /\ call' = "get_cached_position_averages"
                /\ args'.db_path # POSITION_AVERAGES_CACHE_DB_PATH]_vars

\* C25 witness: a call for the league database answered from the cache with
\* a profile that the players table no longer gives
C25_Witness ==
    /\ call = "get_cached_position_averages"
    /\ args.db_path = DATABASE
    /\ ~ret.calculated
    /\ ret.result # None
    /\ ret.result # calculate_position_averages_from_db(db.players)

\* the players of the league database that belong to a club and are registered to a position
ClubPlayersAt(position) ==
    {i \in DOMAIN db.players :
        /\ ~IsFreeAgent(db.players[i].club_id)
        /\ db.players[i].registered_position = position}

\* the players among a group that have a value for a skill
WithValue(group, skill) == {i \in group : db.players[i][skill] # NaN}

\* C26: the position profile holds, for each position, the arithmetic mean
\* of each skill over the non-free-agent players registered to that position,
\* taken only over the players whose value for that skill is present, and a
\* position with no such player has no row in the profile.
C26_ProfileIsMeanOfPresent ==
    (/\ call = "get_cached_position_averages" /\ args.db_path = DATABASE
     /\ ret.calculated /\ ret.result # None) =>
        /\ \A position \in {"0", "3", "7"} :
              position \in DOMAIN ret.result <=> ClubPlayersAt(position) # {}
        /\ \A position \in DOMAIN ret.result, skill \in ProfileSkills :
              LET counted == WithValue(ClubPlayersAt(position), skill)
                  total   == SumOver(db.players, counted, skill)
                  mean    == ret.result[position][skill]
              IN  IF counted = {} THEN mean = NaN
                  ELSE /\ mean * Cardinality(counted) <= total * MeanUnit
                       /\ total * MeanUnit < (mean + 1) * Cardinality(counted)

\* C26 witness: a profile calculated over two midfielders of a club, one of
\* them without a defense value, and a free agent who is not counted; the
\* goalkeepers have no row
C26_Witness ==
    /\ call = "get_cached_position_averages" /\ args.db_path = DATABASE
    /\ ret.calculated /\ ret.result # None
    /\ Len(db.players) = 3
    /\ Cardinality(ClubPlayersAt("7")) = 2
    /\ \E i \in DOMAIN db.players : db.players[i].club_id = NO_CLUB
    /\ "0" \notin DOMAIN ret.result
    /\ ret.result["7"]["attack"] = (121 * MeanUnit) \div 2
    /\ ret.result["7"]["defense"] = 61 * MeanUnit

-----------------------------------------------------------------------------
(* update_all_player_salaries: claims *)

\* the players the loop has gone through
Processed == locals.next - 1

\* the players of the batches that were completed: processed and committed
Completed ==
    CASE locals.pc = "player" -> batch_size * (Processed \div batch_size)
      [] locals.pc = "commit" -> batch_size * ((Processed - 1) \div batch_size)
      [] OTHER                -> Len(locals.players)

\* the update of the k-th fetched player is in the database
Durable(k) ==
    LET id == locals.players[k]
    IN  /\ db.players[id].salary # locals.fetched[id].salary
        /\ db.players[id].salary >= GLOBAL_BASE_SALARY
        /\ db.players[id].contract_years_remaining > 0

\* the players among the first n fetched players on whom the update fails
Failed(n) ==
    {k \in 1..n : LET row == locals.fetched[locals.players[k]]
                  IN  row.age = NotNumeric \/ row.salary = NaN}

\* C27: update_all_player_salaries processes the players in batches of 100
\* and commits each batch before the next one starts, so when the run is
\* interrupted at any point the updates of every completed batch are durable
\* and at most the updates of the batch in progress are lost; a failure on
\* one player is counted and does not stop the remaining players of the batch.
C27_BatchesAreDurable ==
    (call = "update_all_player_salaries" /\ locals.pc # "returned") =>
        /\ \A k \in 1..Completed :
              locals.fetched[locals.players[k]].age # NotNumeric => Durable(k)
        /\ \A k \in (Completed + 1)..Len(locals.players) :
              db.players[locals.players[k]] = locals.fetched[locals.players[k]]
        /\ Processed - Completed <= batch_size
        /\ locals.errors = Cardinality(Failed(Processed))
        /\ locals.updated_count = Processed - locals.errors
        /\ locals.pc = "done" => Processed = Len(locals.players)

\* C27 witness: a run over 201 players interrupted in its second batch after
\* two failures: the update of the first batch is in the database, the
\* update of player 101 is lost
C27_Witness ==
    /\ call = "update_all_player_salaries"
    /\ locals.interrupted /\ locals.pc = "player"
    /\ Len(locals.players) = MaxSalaryPlayers
    /\ Processed > batch_size + 1
    /\ locals.errors = 2
    /\ Durable(1)
    /\ locals.fetched[101].salary = NaN
    /\ db.players[101].salary = NaN

-----------------------------------------------------------------------------
(* assign_development_keys_to_players: claims *)

\* the player has a development key that is not 0
HasKey(player) == player.development_key # None /\ player.development_key # Key(0, 0)

\* C28: assign_development_keys_to_players is idempotent: players whose
\* development_key is already non-zero keep their key and trait unchanged,
\* every key it assigns is non-zero, and therefore a second run directly
\* after a successful run finds no player to process and changes nothing.
C28_AssignIsIdempotent ==
    [][call' = "assign_development_keys_to_players" =>
          /\ DOMAIN db'.players = DOMAIN db.players
          /\ \A id \in DOMAIN db.players :
                /\ HasKey(db.players[id]) => db'.players[id] = db.players[id]
                /\ HasKey(db'.players[id])
          /\ call = "assign_development_keys_to_players" =>
                /\ db' = db
                /\ ret'.players_processed = 0
                /\ ret'.new_keys_assigned = 0]_vars

\* C28 witness: a second run directly after a run that gave one of two
\* players a mixed key: it processed no player
C28_Witness ==
    /\ call = "assign_development_keys_to_players"
    /\ ret.players_processed = 0
    /\ Len(db.players) = 2
    /\ \E id \in DOMAIN db.players : db.players[id].development_key.b31 = 1
    /\ \E id \in DOMAIN db.players :
          db.players[id] = [development_key |-> generate_development_key(4, (15 * Scale) \div 10), trait_key |-> 2]

-----------------------------------------------------------------------------
(* generate_new_player: claims *)

\* C29: when generate_new_player is called without a position, the
\* registered_position it assigns is one of the position identifiers of the
\* stored population and of the rest of the engine (the codes '0', '2', ...,
\* '13' that key the position profile and the regen flag mapping).
C29_ChosenPositionIsACode ==
    (call = "generate_new_player" /\ args.position = NoPosition) =>
        ret.registered_position \in DOMAIN position_to_field

-----------------------------------------------------------------------------
(* Transfer offers: claims *)

\* C30: a transfer offer is settled at most once: accept_offer and
\* reject_offer act only on an offer whose status is 'pending' and that is
\* addressed to the requesting user, and after an offer has been accepted or
\* rejected every later accept or reject request on it leaves the team
\* rosters, both budgets and the offer status unchanged.
C30_OfferSettledOnce ==
    [][/\ db' # db =>
             \E r \in 1..MaxRequests :
                /\ locals[r].pc \in {"accept_offer", "reject_offer"}
                /\ locals'[r].pc = "done"
                /\ db.offers[locals[r].offer_id].status = "pending"
                /\ db.offers[locals[r].offer_id].receiver_id = locals[r].current_user
       /\ \A offer_id \in DOMAIN db.offers :
             db.offers[offer_id].status # "pending" => db' = db]_vars

====
